---------------------------- MODULE Spec2Model ----------------------------
(***************************************************************************)
(* Model of randomizer.py: the TestGeneratorAnalyzer class and the two     *)
(* phases of main().  Phase 1 loads one question per sheet of              *)
(* questions.xlsx, generates shuffled candidate variants, keeps the best   *)
(* ones and writes the answer keys; phase 2 is a new process that reads    *)
(* question_mappings.json and student_answers.xlsx and grades.             *)
(*                                                                         *)
(* Python objects that are mutated in place (the question dicts, whose     *)
(* "answers" list random.shuffle reorders) live in `heap` and are named by *)
(* their index, so that sharing between the bank and the candidates is     *)
(* something the model can express.  Optional values (None) are sequences  *)
(* of length 0 or 1.  Numbers are integers: a percentage is kept in        *)
(* hundredths (round(x, 2)), passing_threshold in percent.                 *)
(***************************************************************************)
EXTENDS Integers, Sequences, FiniteSets, TLC

\* ------------------------------------------------------------- bounds
\* Sheets of the question workbook (the bank has at most this many questions).
MaxSheets == 2
\* Answers of the whole bank, all questions together.
MaxBankAnswers == 4
\* Rows (students) of a submission spreadsheet.
MaxRows == 2

VARIABLES
    pc,                        \* position of main() in the running process
    config_json,               \* the files: <<>> when absent, <<content>> otherwise
    questions_xlsx,
    student_answers_xlsx,
    question_mappings_json,
    answer_keys_report_txt,
    heap,                      \* the process's question dicts, by reference
    stdout,                    \* what the process printed
    config,                    \* the fields of the TestGeneratorAnalyzer instance
    questions_data,
    original_questions_order,
    variants,
    variant_answer_keys,
    variant_question_mappings,
    student_responses,
    test_results,
    test_results_keys,         \* the keys of test_results in insertion order
    analysis_results,
    default_correct_score,
    default_wrong_score,
    default_no_answer_score,
    passing_threshold,
    question_analytics,
    potential_variants,        \* locals of main()
    randomness_metrics,
    grading_runs,              \* calls of correct_tests on this instance
    phase1_exit,               \* memory of the phase-1 process when it ended
    frame                      \* the activation of a function followed step by step

files == <<config_json, questions_xlsx, student_answers_xlsx,
           question_mappings_json, answer_keys_report_txt>>

fields == <<heap, stdout, config, questions_data, original_questions_order,
            variants, variant_answer_keys, variant_question_mappings,
            student_responses, test_results, test_results_keys, analysis_results,
            default_correct_score, default_wrong_score,
            default_no_answer_score, passing_threshold, question_analytics>>

vars == <<pc, files, fields, potential_variants, randomness_metrics,
          grading_runs, phase1_exit, frame>>

\* ------------------------------------------------------------ helpers
None == <<>>
Some(v) == <<v>>

EmptyDict == [k \in {} |-> 0]

Put(d, k, v) == [x \in DOMAIN d \cup {k} |-> IF x = k THEN v ELSE d[x]]

Min(a, b) == IF a < b THEN a ELSE b

RECURSIVE Sum(_, _)
Sum(f, S) == IF S = {} THEN 0
             ELSE LET x == CHOOSE y \in S : TRUE IN f[x] + Sum(f, S \ {x})

Perms(n) == {p \in [1..n -> 1..n] : \A i, j \in 1..n : p[i] = p[j] => i = j}

ApplyPerm(s, p) == [j \in 1..Len(s) |-> s[p[j]]]

\* Sequences over S of length at most n.
SeqsUpTo(S, n) == UNION {[1..k -> S] : k \in 0..n}

\* The memory of the running process as one record, and its assignment.
Self == [heap |-> heap, stdout |-> stdout, config |-> config,
         questions_data |-> questions_data,
         original_questions_order |-> original_questions_order,
         variants |-> variants,
         variant_answer_keys |-> variant_answer_keys,
         variant_question_mappings |-> variant_question_mappings,
         student_responses |-> student_responses,
         test_results |-> test_results,
         test_results_keys |-> test_results_keys,
         analysis_results |-> analysis_results,
         default_correct_score |-> default_correct_score,
         default_wrong_score |-> default_wrong_score,
         default_no_answer_score |-> default_no_answer_score,
         passing_threshold |-> passing_threshold,
         question_analytics |-> question_analytics]

Becomes(m) ==
    /\ heap' = m.heap
    /\ stdout' = m.stdout
    /\ config' = m.config
    /\ questions_data' = m.questions_data
    /\ original_questions_order' = m.original_questions_order
    /\ variants' = m.variants
    /\ variant_answer_keys' = m.variant_answer_keys
    /\ variant_question_mappings' = m.variant_question_mappings
    /\ student_responses' = m.student_responses
    /\ test_results' = m.test_results
    /\ test_results_keys' = m.test_results_keys
    /\ analysis_results' = m.analysis_results
    /\ default_correct_score' = m.default_correct_score
    /\ default_wrong_score' = m.default_wrong_score
    /\ default_no_answer_score' = m.default_no_answer_score
    /\ passing_threshold' = m.passing_threshold
    /\ question_analytics' = m.question_analytics

\* print(...): a message and its two arguments ("" when it has fewer).
print(m, msg, a, b) == [m EXCEPT !.stdout = @ \cup {<<msg, a, b>>}]

\* ------------------------------------------- TestGeneratorAnalyzer()
\* config.get(key, default)
ConfigGet(cfg, key, default) == IF key \in DOMAIN cfg THEN cfg[key] ELSE default

\* _load_config: the parsed dictionary is returned, and the four scoring
\* attributes are set on the instance from it.
load_config(m, cfg) ==
    [m EXCEPT !.config = cfg,
              !.default_correct_score = ConfigGet(cfg, "default_correct_score", 4),
              !.default_wrong_score = ConfigGet(cfg, "default_wrong_score", 0),
              !.default_no_answer_score = ConfigGet(cfg, "default_no_answer_score", 1),
              !.passing_threshold = ConfigGet(cfg, "passing_threshold", 58)]

\* The memory of a process before the instance is constructed.
Blank == [heap |-> <<>>, stdout |-> {}, config |-> EmptyDict,
          questions_data |-> <<>>, original_questions_order |-> <<>>,
          variants |-> <<>>, variant_answer_keys |-> EmptyDict,
          variant_question_mappings |-> EmptyDict,
          student_responses |-> None, test_results |-> EmptyDict,
          test_results_keys |-> <<>>,
          analysis_results |-> None,
          default_correct_score |-> 0, default_wrong_score |-> 0,
          default_no_answer_score |-> 0, passing_threshold |-> 0,
          question_analytics |-> EmptyDict]

\* __init__: line 32 runs _load_config first; lines 33-51 then assign the
\* other attributes, the four scoring attributes among them.
init(cfg) ==
    [load_config(Blank, cfg) EXCEPT
        !.questions_data = <<>>,
        !.original_questions_order = <<>>,
        !.variants = <<>>,
        !.variant_answer_keys = EmptyDict,
        !.variant_question_mappings = EmptyDict,
        !.student_responses = None,
        !.test_results = EmptyDict,
        !.test_results_keys = <<>>,
        !.analysis_results = None,
        !.default_correct_score = 4,
        !.default_wrong_score = 0,
        !.default_no_answer_score = 1,
        !.passing_threshold = 58,
        !.question_analytics = EmptyDict]

\* ------------------------------------------ load_questions_from_excel
\* A spreadsheet cell that is empty (NaN), holds a number, or holds text.
NullCell == [k |-> "null", v |-> 0]
NumCell(n) == [k |-> "num", v |-> n]
TextCell == [k |-> "text", v |-> 0]

\* Lines 247-249: the rows whose question text and correct answer are both
\* present and not blank ("" stands for an empty cell).
ValidRows(sheet) ==
    SelectSeq(sheet.rows, LAMBDA r : r.question_text # "" /\ r.correct_answer # "")

\* BuildAnswers without the test alt_text != correct_answer_text and with the
\* flag set by comparing texts.
BuildAnswers_KeepingEqualAlternative(row) ==
    LET kept == SelectSeq(row.alternatives, LAMBDA a : a # "")
        texts == <<row.correct_answer>> \o kept
    IN  [k \in 1..Len(texts) |->
            [text |-> texts[k], is_correct |-> texts[k] = row.correct_answer]]

\* Lines 256-266: the correct answer first, then every alternative that is
\* present, not blank and different from the correct answer.
BuildAnswers(row) ==
    LET distractors == SelectSeq(row.alternatives,
                           LAMBDA a : a # "" /\ a # row.correct_answer)
    IN  <<[text |-> row.correct_answer, is_correct |-> TRUE]>>
        \o [k \in 1..Len(distractors) |->
               [text |-> distractors[k], is_correct |-> FALSE]]

\* Lines 276-302: float(val) of a cell that is present; a cell that is
\* empty, or whose text float() rejects, leaves None.
ParseScore(cell) == IF cell.k = "num" THEN Some(cell.v) ELSE None

\* Lines 267-273: int(val), 1 when int() raises.
ParseNumCols(cell) == IF cell.k = "num" THEN cell.v ELSE 1

\* Lines 304-312.
BuildQuestion(sheet, row) ==
    [question_text |-> row.question_text,
     sheet_name |-> sheet.sheet_name,
     num_columns_alternatives |-> ParseNumCols(row.num_cols),
     answers |-> BuildAnswers(row),
     punteggio_corretta |-> ParseScore(row.punteggio_corretta),
     punteggio_errata |-> ParseScore(row.punteggio_errata),
     punteggio_non_data |-> ParseScore(row.punteggio_non_data)]

\* The loop of lines 245-313 from sheet i on.  pick[i] is the row that
\* valid_df.sample(n=1) draws in sheet i.  A sheet without the two required
\* columns raises (KeyError) and ends the loop.
RECURSIVE LoadSheets(_, _, _, _)
LoadSheets(wb, i, pick, acc) ==
    IF i > Len(wb) THEN acc
    ELSE IF ~wb[i].has_columns THEN [acc EXCEPT !.raised = TRUE]
    ELSE IF ValidRows(wb[i]) = <<>>
         THEN LoadSheets(wb, i + 1, pick,
                  [acc EXCEPT !.printed = @ \cup {<<"no_valid_row", wb[i].sheet_name, "">>}])
    ELSE LoadSheets(wb, i + 1, pick,
             [acc EXCEPT !.questions =
                 Append(@, BuildQuestion(wb[i], ValidRows(wb[i])[pick[i]]))])

\* The draws sample(n=1) can make in the sheets of a workbook.
RowChoices(wb) ==
    LET most == CHOOSE n \in 1..100 :
                    /\ \A i \in 1..Len(wb) : Len(wb[i].rows) <= n
                    /\ n = 1 \/ \E i \in 1..Len(wb) : Len(wb[i].rows) = n
    IN  {p \in [1..Len(wb) -> 1..most] :
            \A i \in 1..Len(wb) :
                p[i] = 1 \/ (wb[i].has_columns /\ p[i] <= Len(ValidRows(wb[i])))}

\* load_questions_from_excel (lines 236-317).  A missing file raises before
\* questions_data is reset; an exception in the loop leaves the questions
\* appended so far and original_questions_order as it was.
load_questions_from_excel(m, file, pick) ==
    IF file = None THEN print(m, "load_questions_error", "", "")
    ELSE LET r == LoadSheets(file[1], 1, pick,
                      [questions |-> <<>>, printed |-> {}, raised |-> FALSE])
             refs == [k \in 1..Len(r.questions) |-> Len(m.heap) + k]
             m1 == [m EXCEPT !.heap = @ \o r.questions,
                             !.questions_data = refs,
                             !.stdout = @ \cup r.printed]
         IN  IF r.raised THEN print(m1, "load_questions_error", "", "")
             ELSE print([m1 EXCEPT !.original_questions_order =
                             [k \in 1..Len(r.questions) |-> r.questions[k].question_text]],
                        "questions_loaded", ToString(Len(r.questions)), "")

\* --------------------------------------------- generate_test_variants
\* copy.copy(self.questions_data): a new list of the same question dicts.
deepcopy_Shallow(h, refs) == [heap |-> h, refs |-> refs]

\* copy.deepcopy(self.questions_data): a new list of new question dicts.
deepcopy(h, refs) ==
    [heap |-> h \o [k \in 1..Len(refs) |-> h[refs[k]]],
     refs |-> [k \in 1..Len(refs) |-> Len(h) + k]]

\* ShuffleChoices with the question list drawn with replacement
\* (random.choices) instead of shuffled.
ShuffleChoices_WithReplacement(h, refs) ==
    LET n == Len(refs)
        lens == {Len(h[refs[k]].answers) : k \in 1..n}
        allPerms == UNION {Perms(l) : l \in lens}
    IN  {c \in [qp : [1..n -> 1..n], ap : [1..n -> allPerms]] :
            \A j \in 1..n : Len(c.ap[j]) = Len(h[refs[c.qp[j]]].answers)}

\* What the two kinds of random.shuffle of one candidate can draw: qp orders
\* the question list, ap[j] orders the answers of the j-th question of the
\* shuffled list.
ShuffleChoices(h, refs) ==
    LET n == Len(refs)
        lens == {Len(h[refs[k]].answers) : k \in 1..n}
        allPerms == UNION {Perms(l) : l \in lens}
    IN  {c \in [qp : Perms(n), ap : [1..n -> allPerms]] :
            \A j \in 1..n : Len(c.ap[j]) = Len(h[refs[c.qp[j]]].answers)}

\* random.shuffle(question["answers"]) for every question of the list.
ShuffleAnswers(h, vq, ap) ==
    [r \in 1..Len(h) |->
        IF \E j \in 1..Len(vq) : vq[j] = r
        THEN LET j == CHOOSE j \in 1..Len(vq) : vq[j] = r
             IN  [h[r] EXCEPT !.answers = ApplyPerm(@, ap[j])]
        ELSE h[r]]

\* The loop of lines 328-337 from candidate i on.
RECURSIVE GenerateLoop(_, _, _, _, _, _)
GenerateLoop(h, bank, i, num_variants, shuffles, acc) ==
    IF i > num_variants THEN [heap |-> h, variants |-> acc]
    ELSE LET c == deepcopy(h, bank)
             variant_questions == ApplyPerm(c.refs, shuffles[i].qp)
             h2 == ShuffleAnswers(c.heap, variant_questions, shuffles[i].ap)
             variant == [variant_id |-> ToString(i), questions |-> variant_questions]
         IN  GenerateLoop(h2, bank, i + 1, num_variants, shuffles, Append(acc, variant))

\* generate_test_variants (lines 319-339): the memory afterwards and the
\* list returned.
generate_test_variants(m, num_variants, shuffles) ==
    IF m.questions_data = <<>>
    THEN [m |-> print(m, "no_questions_loaded", "", ""), result |-> <<>>]
    ELSE LET g == GenerateLoop(m.heap, m.questions_data, 1, num_variants, shuffles, <<>>)
         IN  [m |-> print([m EXCEPT !.heap = g.heap],
                          "variants_generated", ToString(num_variants), ""),
              result |-> g.variants]

\* ------------------------------------------------ randomness scores
\* Fractions <<numerator, denominator>> with a positive denominator stand
\* for the floats of the scores.
RAdd(a, b) == <<a[1] * b[2] + b[1] * a[2], a[2] * b[2]>>
RDiv(a, n) == <<a[1], a[2] * n>>
RLess(a, b) == a[1] * b[2] < b[1] * a[2]
REq(a, b) == a[1] * b[2] = b[1] * a[2]

RECURSIVE RSum(_)
RSum(s) == IF s = <<>> THEN <<0, 1>> ELSE RAdd(s[1], RSum(Tail(s)))

\* next((i for i, ans in enumerate(answers) if ans.get("is_correct")), 0)
CorrectIndex(answers) ==
    IF \E i \in 1..Len(answers) : answers[i].is_correct
    THEN (CHOOSE i \in 1..Len(answers) :
              /\ answers[i].is_correct
              /\ \A j \in 1..(i - 1) : ~answers[j].is_correct) - 1
    ELSE 0

\* [q["question_text"] for q in variant["questions"]]
VariantOrder(h, variant) ==
    [k \in 1..Len(variant.questions) |-> h[variant.questions[k]].question_text]

\* sum(1 for orig, var in zip(original, variant_order) if orig != var)
DiffCount(original, variant_order) ==
    Cardinality({k \in 1..Min(Len(original), Len(variant_order)) :
                    original[k] # variant_order[k]})

\* evaluate_randomness_of_variants (lines 341-383).  The mean question-order
\* difference is kept as a fraction; the answer-order metric is a standard
\* deviation (a real number) and is not part of the record.
evaluate_randomness_of_variants(m, vs) ==
    IF vs = <<>> \/ m.original_questions_order = <<>>
    THEN [zero |-> TRUE, question_order_randomness |-> <<0, 1>>]
    ELSE [zero |-> FALSE,
          question_order_randomness |->
              RDiv(RSum([i \in 1..Len(vs) |->
                           <<DiffCount(m.original_questions_order, VariantOrder(m.heap, vs[i])),
                             Len(m.original_questions_order)>>]),
                   Len(vs))]

\* The sum of the answer scores in place of their mean.
AnswerOrderScore_SumNotMean(h, variant) ==
    RSum([k \in 1..Len(variant.questions) |->
             LET answers == h[variant.questions[k]].answers
             IN  IF Len(answers) > 1
                 THEN <<CorrectIndex(answers), Len(answers) - 1>>
                 ELSE <<0, 1>>])

\* Lines 394-400: the mean over the questions of index / (n - 1).
AnswerOrderScore(h, variant) ==
    LET answer_scores ==
            [k \in 1..Len(variant.questions) |->
                LET answers == h[variant.questions[k]].answers
                IN  IF Len(answers) > 1
                    THEN <<CorrectIndex(answers), Len(answers) - 1>>
                    ELSE <<0, 1>>]
    IN  IF answer_scores # <<>> THEN RDiv(RSum(answer_scores), Len(answer_scores))
        ELSE <<0, 1>>

\* Lines 391-393 (the division needs a non-empty original order).
QuestionOrderScore(m, variant) ==
    <<DiffCount(m.original_questions_order, VariantOrder(m.heap, variant)),
      Len(m.original_questions_order)>>

\* Line 401.
VariantScore(m, variant) ==
    RDiv(RAdd(QuestionOrderScore(m, variant), AnswerOrderScore(m.heap, variant)), 2)

\* An unstable sort: an element goes before the elements of equal score.
InsertByScore_BeforeEqualScores(sorted, x) ==
    LET p == Cardinality({i \in 1..Len(sorted) : RLess(x.score, sorted[i].score)})
    IN  SubSeq(sorted, 1, p) \o <<x>> \o SubSeq(sorted, p + 1, Len(sorted))

\* list.sort(key=score, reverse=True) is stable: an element goes after
\* every element already placed whose score is not lower.
InsertByScore(sorted, x) ==
    LET p == Cardinality({i \in 1..Len(sorted) : ~RLess(sorted[i].score, x.score)})
    IN  SubSeq(sorted, 1, p) \o <<x>> \o SubSeq(sorted, p + 1, Len(sorted))

RECURSIVE SortByScore(_, _)
SortByScore(rest, sorted) ==
    IF rest = <<>> THEN sorted
    ELSE SortByScore(Tail(rest), InsertByScore(sorted, rest[1]))

\* Only the candidates that reach the measured question-order randomness
\* are ranked.
select_best_variants_AboveMeasured(m, potential, metrics, num_variants) ==
    IF potential # <<>> /\ m.original_questions_order = <<>>
    THEN [raised |-> TRUE, result |-> <<>>]
    ELSE LET scores == [i \in 1..Len(potential) |->
                           [score |-> VariantScore(m, potential[i]), variant |-> potential[i]]]
             sorted == SortByScore(scores, <<>>)
             above == SelectSeq(sorted, LAMBDA s :
                          ~RLess(<<DiffCount(m.original_questions_order, VariantOrder(m.heap, s.variant)),
                                   Len(m.original_questions_order)>>,
                                 metrics.question_order_randomness))
         IN  [raised |-> FALSE,
              result |-> [i \in 1..Min(num_variants, Len(above)) |-> above[i].variant]]

\* select_best_variants (lines 385-406): ZeroDivisionError when a candidate
\* is scored against an empty original order.
select_best_variants(m, potential, metrics, num_variants) ==
    IF potential # <<>> /\ m.original_questions_order = <<>>
    THEN [raised |-> TRUE, result |-> <<>>]
    ELSE LET scores == [i \in 1..Len(potential) |->
                           [score |-> VariantScore(m, potential[i]), variant |-> potential[i]]]
             sorted == SortByScore(scores, <<>>)
         IN  [raised |-> FALSE,
              result |-> [i \in 1..Min(num_variants, Len(sorted)) |-> sorted[i].variant]]

\* ------------------------------------------------- answer-key registry
UpperLetters == <<"A", "B", "C", "D", "E", "F">>
LowerLetters == <<"a", "b", "c", "d", "e", "f">>

\* Upper-case letters whatever the format.
Label_AlwaysUpperCase(label_style, correct_idx) == UpperLetters[correct_idx + 1]

\* Lines 447-452: chr(ord('A') + i), chr(ord('a') + i) or str(i + 1).
Label(label_style, correct_idx) ==
    IF label_style = "letters_upper" THEN UpperLetters[correct_idx + 1]
    ELSE IF label_style = "letters_lower" THEN LowerLetters[correct_idx + 1]
    ELSE ToString(correct_idx + 1)

\* str(q_idx + 1) for the questions of a variant, and back.
QuestionNums(variant) == {ToString(k) : k \in 1..Len(variant.questions)}
Position(q) == CHOOSE k \in 1..100 : ToString(k) = q

\* Lines 433-455 for one variant.
KeyMapping(h, variant, label_style) ==
    [q \in QuestionNums(variant) |->
        Label(label_style, CorrectIndex(h[variant.questions[Position(q)]].answers))]

\* The question text recorded in place of the sheet name.
QuestionMapping_ByQuestionText(h, variant) ==
    [q \in QuestionNums(variant) |-> h[variant.questions[Position(q)]].question_text]

QuestionMapping(h, variant) ==
    [q \in QuestionNums(variant) |-> h[variant.questions[Position(q)]].sheet_name]

\* The registries keyed by the place of the variant among the kept ones.
RECURSIVE RegisterVariants_Renumbered(_, _)
RegisterVariants_Renumbered(m, i) ==
    IF i > Len(m.variants) THEN m
    ELSE LET v == m.variants[i]
             label_style == ConfigGet(m.config, "choice_label_format", "letters_upper")
         IN  RegisterVariants_Renumbered(
                 [m EXCEPT !.variant_answer_keys =
                               Put(@, ToString(i), KeyMapping(m.heap, v, label_style)),
                           !.variant_question_mappings =
                               Put(@, ToString(i), QuestionMapping(m.heap, v))],
                 i + 1)

\* The loop of lines 431-459 from variant i on.
RECURSIVE RegisterVariants(_, _)
RegisterVariants(m, i) ==
    IF i > Len(m.variants) THEN m
    ELSE LET v == m.variants[i]
             label_style == ConfigGet(m.config, "choice_label_format", "letters_upper")
         IN  RegisterVariants(
                 [m EXCEPT !.variant_answer_keys =
                               Put(@, v.variant_id, KeyMapping(m.heap, v, label_style)),
                           !.variant_question_mappings =
                               Put(@, v.variant_id, QuestionMapping(m.heap, v))],
                 i + 1)

\* json.dump of a dict of dicts of strings: an object is the set of its
\* members <<key, value>>; json.load builds the dicts again.
JsonDumpDict(d) == {<<k, {<<q, d[k][q]>> : q \in DOMAIN d[k]}>> : k \in DOMAIN d}

JsonLoadObject(members) ==
    [k \in {mb[1] : mb \in members} |-> (CHOOSE mb \in members : mb[1] = k)[2]]

JsonLoadDict(members) ==
    LET outer == JsonLoadObject(members)
    IN  [k \in DOMAIN outer |-> JsonLoadObject(outer[k])]

\* Lines 470-475.
MappingsFile(m) ==
    [variant_answer_keys |-> JsonDumpDict(m.variant_answer_keys),
     variant_question_mappings |-> JsonDumpDict(m.variant_question_mappings)]

\* generate_answer_keys_report (lines 421-478).
generate_answer_keys_report(m) ==
    print(RegisterVariants(m, 1), "answer_keys_report_written", "", "")

\* generate_test_pdfs (lines 408-419): compiled holds the variants whose
\* PDF pdflatex produced; the others are reported.
generate_test_pdfs(m, compiled) ==
    print([m EXCEPT !.stdout = @ \cup
               {<<"pdf_error", m.variants[i].variant_id, "">> :
                   i \in {j \in 1..Len(m.variants) : m.variants[j].variant_id \notin compiled}}],
          "pdfs_done", "", "")

\* The submission spreadsheet: which of the two required columns it has,
\* its other columns and its rows.  Lines 1250-1258 write the empty one.
Template(vs) ==
    LET max_questions == CHOOSE n \in 0..100 :
                             /\ \A i \in 1..Len(vs) : Len(vs[i].questions) <= n
                             /\ \E i \in 1..Len(vs) : Len(vs[i].questions) = n
    IN  [has_student_id |-> TRUE, has_variant_id |-> TRUE,
         answer_cols |-> {ToString(i) : i \in 1..max_questions},
         rows |-> <<>>]

\* ---------------------------------- load_student_answers_from_excel
\* Lines 500-502: a variant_id that reads as a number loses its decimals
\* (str(int(float(x)))), any other stays as it is.
NormalizeVariantId(x) ==
    CASE x = "1.0" -> "1"
      [] x = "2.0" -> "2"
      [] x = "9.0" -> "9"
      [] OTHER -> x

\* pd.read_excel (line 489) types each column.  A cell of a submission row
\* is text or a number (row.numbers holds the columns of the number cells,
\* row.answers the characters typed).  A column whose cells are numbers and
\* empty cells becomes float64, so str() of its numbers (line 561) ends in
\* ".0"; the numbers of any other column stay as typed.
ColumnIsFloat(sheet, c) ==
    /\ \E i \in 1..Len(sheet.rows) : sheet.rows[i].answers[c] = ""
    /\ \E i \in 1..Len(sheet.rows) : c \in sheet.rows[i].numbers
    /\ \A i \in 1..Len(sheet.rows) :
           sheet.rows[i].answers[c] # "" => c \in sheet.rows[i].numbers

\* The DataFrame of a sheet: every cell as str() gives it, "" for NaN.
read_excel(sheet) ==
    [sheet EXCEPT !.rows =
        [i \in 1..Len(sheet.rows) |->
            [sheet.rows[i] EXCEPT !.answers =
                [c \in DOMAIN sheet.rows[i].answers |->
                    IF c \in sheet.rows[i].numbers /\ ColumnIsFloat(sheet, c)
                    THEN sheet.rows[i].answers[c] \o ".0"
                    ELSE sheet.rows[i].answers[c]]]]]

\* load_student_answers_from_excel (lines 480-506).  read_excel raises on a
\* missing file; the required columns are checked after student_responses
\* was assigned.
load_student_answers_from_excel(m, file) ==
    IF file = None THEN print(m, "load_answers_error", "", "")
    ELSE LET sheet == read_excel(file[1])
             m1 == [m EXCEPT !.student_responses = Some(sheet)]
         IN  IF ~sheet.has_student_id \/ ~sheet.has_variant_id
             THEN print(m1, "load_answers_error", "", "")
             ELSE print([m1 EXCEPT !.student_responses = Some(
                             [sheet EXCEPT !.rows =
                                 [i \in 1..Len(sheet.rows) |->
                                     [sheet.rows[i] EXCEPT
                                         !.variant_id = NormalizeVariantId(@)]]])],
                        "answers_loaded", "", "")

\* ------------------------------------------------------ correct_tests
\* str.upper() on the labels and answers of the model.
Upper(x) ==
    IF \E i \in 1..Len(LowerLetters) : LowerLetters[i] = x
    THEN UpperLetters[CHOOSE i \in 1..Len(LowerLetters) : LowerLetters[i] = x]
    ELSE x

\* round(n / d, 0) for d > 0, as Python rounds: to the nearest, ties to even.
RoundDiv(n, d) ==
    LET q == n \div d
        r == n % d
    IN  IF 2 * r > d \/ (2 * r = d /\ q % 2 = 1) THEN q + 1 ELSE q

\* The percentage cut after two decimals instead of rounded.
Percentage_Truncated(total_score, max_possible_score) ==
    IF max_possible_score > 0 THEN (total_score * 10000) \div max_possible_score
    ELSE 0

\* Line 609, in hundredths of a percent.
Percentage(total_score, max_possible_score) ==
    IF max_possible_score > 0 THEN RoundDiv(total_score * 10000, max_possible_score)
    ELSE 0

\* Lines 537-540: the questions of the instance's variant with this id, by
\* sheet name; empty when self.variants holds no such variant.
QuestionDataMap(m, variant_id) ==
    LET found == {i \in 1..Len(m.variants) : m.variants[i].variant_id = variant_id}
        variant_questions ==
            IF found = {} THEN <<>>
            ELSE m.variants[CHOOSE i \in found : \A j \in found : i <= j].questions
    IN  [name \in {m.heap[variant_questions[k]].sheet_name : k \in 1..Len(variant_questions)} |->
            m.heap[variant_questions[
                CHOOSE k \in 1..Len(variant_questions) :
                    /\ m.heap[variant_questions[k]].sheet_name = name
                    /\ \A l \in (k + 1)..Len(variant_questions) :
                           m.heap[variant_questions[l]].sheet_name # name]]]

\* Lines 569-582: question_data.get(key), the default when that is None.
Weight(question_data_map, sheet_name, key, default) ==
    IF sheet_name \in DOMAIN question_data_map /\ question_data_map[sheet_name][key] # None
    THEN question_data_map[sheet_name][key][1]
    ELSE default

\* Lines 588-605: the outcome of one cell ("" is an empty cell).
Outcome(cell, correct_letter) ==
    IF cell = "" THEN "blank"
    ELSE IF Upper(cell) = Upper(correct_letter) THEN "correct"
    ELSE "wrong"

\* Lines 543 and 564: the answer columns that are question numbers of the
\* variant.
GradedCols(m, sheet, variant_id) ==
    {c \in sheet.answer_cols :
        /\ c \in DOMAIN m.variant_answer_keys[variant_id]
        /\ c \in DOMAIN m.variant_question_mappings[variant_id]}

RowOutcomes(m, sheet, row, variant_id) ==
    [c \in GradedCols(m, sheet, variant_id) |->
        Outcome(row.answers[c], m.variant_answer_keys[variant_id][c])]

\* Lines 542-624 for one row whose variant is in the registry.
GradeRow(m, sheet, row, variant_id) ==
    LET key_mapping == m.variant_answer_keys[variant_id]
        question_mapping == m.variant_question_mappings[variant_id]
        question_data_map == QuestionDataMap(m, variant_id)
        cols == GradedCols(m, sheet, variant_id)
        punto_corretta == [c \in cols |-> Weight(question_data_map, question_mapping[c],
                               "punteggio_corretta", m.default_correct_score)]
        punto_errata == [c \in cols |-> Weight(question_data_map, question_mapping[c],
                               "punteggio_errata", m.default_wrong_score)]
        punto_non_data == [c \in cols |-> Weight(question_data_map, question_mapping[c],
                               "punteggio_non_data", m.default_no_answer_score)]
        outcome == RowOutcomes(m, sheet, row, variant_id)
        points == [c \in cols |->
                      IF outcome[c] = "blank" THEN punto_non_data[c]
                      ELSE IF outcome[c] = "correct" THEN punto_corretta[c]
                      ELSE punto_errata[c]]
        of(kind) == {c \in cols : outcome[c] = kind}
        total_score == Sum(points, cols)
        max_possible_score == Sum(punto_corretta, cols)
    IN  [correct_count |-> Cardinality(of("correct")),
         wrong_count |-> Cardinality(of("wrong")),
         blank_count |-> Cardinality(of("blank")),
         correct_score |-> Sum(points, of("correct")),
         wrong_score |-> Sum(points, of("wrong")),
         blank_score |-> Sum(points, of("blank")),
         total_score |-> total_score,
         max_possible_score |-> max_possible_score,
         percentage |-> Percentage(total_score, max_possible_score),
         answers |-> [c \in cols |->
                         [sheet |-> question_mapping[c],
                          response |-> IF outcome[c] = "blank" THEN "blank" ELSE row.answers[c],
                          correct |-> key_mapping[c],
                          points |-> points[c]]],
         variant_id |-> variant_id]

\* Lines 593, 599, 605: the tallies of the sheets of one graded row.
Tally(question_stats, result, outcome) ==
    LET cols == DOMAIN result.answers
        kind(c) == outcome[c]
        sheets == {result.answers[c].sheet : c \in cols}
        old(name) == IF name \in DOMAIN question_stats THEN question_stats[name]
                     ELSE [correct |-> 0, wrong |-> 0, blank |-> 0]
        plus(name, k) == Cardinality({c \in cols : result.answers[c].sheet = name /\ kind(c) = k})
    IN  [name \in DOMAIN question_stats \cup sheets |->
            [correct |-> old(name).correct + plus(name, "correct"),
             wrong |-> old(name).wrong + plus(name, "wrong"),
             blank |-> old(name).blank + plus(name, "blank")]]

\* row.get("student_id") and str(row.get("variant_id")).strip(): None when
\* the sheet has no such column.
StudentId(sheet, row) == IF sheet.has_student_id THEN row.student_id ELSE "None"
VariantId(sheet, row) == IF sheet.has_variant_id THEN row.variant_id ELSE "None"

\* The loop of lines 524-624 from row i on.
RECURSIVE GradeRows(_, _, _, _)
GradeRows(m, sheet, i, question_stats) ==
    IF i > Len(sheet.rows) THEN [m |-> m, question_stats |-> question_stats]
    ELSE LET row == sheet.rows[i]
             student_id == StudentId(sheet, row)
             variant_id == VariantId(sheet, row)
         IN  IF variant_id \notin DOMAIN m.variant_answer_keys
                \/ variant_id \notin DOMAIN m.variant_question_mappings
             THEN GradeRows(print(m, "variant_not_found", variant_id, student_id),
                            sheet, i + 1, question_stats)
             ELSE LET result == GradeRow(m, sheet, row, variant_id)
                  IN  GradeRows([m EXCEPT !.test_results = Put(@, student_id, result),
                                          !.test_results_keys =
                                              IF student_id \in DOMAIN m.test_results THEN @
                                              ELSE Append(@, student_id)],
                                sheet, i + 1,
                                Tally(question_stats, result,
                                      RowOutcomes(m, sheet, row, variant_id)))

\* correct_tests (lines 508-631).
correct_tests(m) ==
    IF m.student_responses = None THEN print(m, "no_answers_loaded", "", "")
    ELSE LET g == GradeRows(m, m.student_responses[1], 1, EmptyDict)
         IN  print([g.m EXCEPT !.question_analytics = g.question_stats],
                   "tests_corrected", "", "")

\* ---------------------------------------------------- analyze_results
\* Numbers with decimals are kept in hundredths, rounded as round(x, 2)
\* rounds them.  A standard deviation is kept as the fraction it is the
\* square root of, a z-score as its numerator and the square of its
\* denominator.
Max(a, b) == IF a > b THEN a ELSE b

RECURSIVE SumSeq(_)
SumSeq(s) == IF s = <<>> THEN 0 ELSE s[1] + SumSeq(Tail(s))

\* sorted(scores)
RECURSIVE SortAscending(_)
SortAscending(s) ==
    IF s = <<>> THEN <<>>
    ELSE LET rest == SortAscending(Tail(s))
             p == Cardinality({i \in 1..Len(rest) : rest[i] < s[1]})
         IN  SubSeq(rest, 1, p) \o <<s[1]>> \o SubSeq(rest, p + 1, Len(rest))

\* np.percentile(scores, q), linear interpolation, in hundredths.
NpPercentile(scores, q) ==
    LET sorted == SortAscending(scores)
        index == (Len(sorted) - 1) * q
        lo == index \div 100
        r == index % 100
    IN  IF r = 0 THEN sorted[lo + 1] * 100
        ELSE sorted[lo + 1] * 100 + r * (sorted[lo + 2] - sorted[lo + 1])

\* stats.percentileofscore(scores, x), kind "rank", rounded, in hundredths.
PercentileOfScore(scores, x) ==
    LET left == Cardinality({i \in 1..Len(scores) : scores[i] < x})
        right == Cardinality({i \in 1..Len(scores) : scores[i] <= x})
    IN  RoundDiv((left + right + (IF left < right THEN 1 ELSE 0)) * 5000, Len(scores))

\* Lines 702-720.
StanineLabels == <<"F-", "F", "E", "D", "C", "B", "A", "S">>

Stanine(scores, x) ==
    LET stanine_boundaries ==
            [k \in 1..8 |-> NpPercentile(scores, <<4, 11, 23, 40, 60, 77, 89, 96>>[k])]
        below == {k \in 1..8 : x * 100 < stanine_boundaries[k]}
    IN  IF below = {} THEN "S+"
        ELSE StanineLabels[CHOOSE k \in below : \A l \in below : k <= l]

\* n * n times the variance of the scores: np.std is its square root over n.
SquaredDeviations(scores) ==
    Len(scores) * SumSeq([i \in 1..Len(scores) |-> scores[i] * scores[i]])
        - SumSeq(scores) * SumSeq(scores)

\* Line 697: (x - avg_score) / std_dev, 0 when std_dev is 0.
ZScore(scores, x) ==
    IF SquaredDeviations(scores) = 0 THEN [numerator |-> 0, denominator_squared |-> 1]
    ELSE [numerator |-> Len(scores) * x - SumSeq(scores),
          denominator_squared |-> SquaredDeviations(scores)]

\* round(np.mean(values), 2), in hundredths.
Mean(values) == RoundDiv(SumSeq(values) * 100, Len(values))

\* analyze_results (lines 633-735).
analyze_results(m) ==
    IF DOMAIN m.test_results = {} THEN print(m, "no_results", "", "")
    ELSE LET keys == m.test_results_keys
             column(field) == [i \in 1..Len(keys) |-> m.test_results[keys[i]][field]]
             scores == column("total_score")
             percentages == column("percentage")
             threshold == m.passing_threshold * 100
             passed == Cardinality({i \in 1..Len(keys) : percentages[i] >= threshold})
             sorted == SortAscending(scores)
             m1 == [m EXCEPT !.analysis_results = Some(
                        [num_students |-> Len(scores),
                         average_score |-> Mean(scores),
                         median_score |-> NpPercentile(scores, 50),
                         std_deviation |->
                             [square |-> <<SquaredDeviations(scores), Len(scores) * Len(scores)>>],
                         min_score |-> sorted[1],
                         max_score |-> sorted[Len(sorted)],
                         quartiles |-> [k \in 1..3 |-> NpPercentile(scores, 25 * k)],
                         passing_threshold |-> threshold,
                         pass_rate |-> RoundDiv(passed * 10000, Len(keys)),
                         avg_correct_score |-> Mean(column("correct_score")),
                         avg_wrong_score |-> Mean(column("wrong_score")),
                         avg_blank_score |-> Mean(column("blank_score")),
                         avg_correct_count |-> Mean(column("correct_count")),
                         avg_wrong_count |-> Mean(column("wrong_count")),
                         avg_blank_count |-> Mean(column("blank_count"))])]
             m2 == [m1 EXCEPT !.test_results =
                        [st \in DOMAIN m.test_results |->
                            [z_score |-> ZScore(scores, m.test_results[st].total_score),
                             percentile |-> PercentileOfScore(scores, m.test_results[st].total_score),
                             stanine |-> Stanine(scores, m.test_results[st].total_score)]
                                @@ m.test_results[st]]]
         IN  print(m2, "results_analyzed", "", "")

\* -------------------------------------------------- analyze_questions
\* Lines 760-762: the students in insertion order, sorted by total_score,
\* highest first (a stable sort).
StudentScores(m) ==
    LET ranked == SortByScore([i \in 1..Len(m.test_results_keys) |->
                                  [score |-> <<m.test_results[m.test_results_keys[i]].total_score, 1>>,
                                   variant |-> m.test_results_keys[i]]], <<>>)
    IN  [i \in 1..Len(ranked) |-> ranked[i].variant]

\* Lines 777-780: the student has a correct answer to the question of the
\* sheet.
AnsweredCorrectly(result, sheet_name) ==
    \E q \in DOMAIN result.answers :
        /\ result.answers[q].sheet = sheet_name
        /\ result.answers[q].response # "blank"
        /\ Upper(result.answers[q].response) = Upper(result.answers[q].correct)

GroupSize_OneStudent(n) == 1

\* Lines 765-766: max(1, int(n * 0.27)).
GroupSize(n) == Max(1, (n * 27) \div 100)

QuestionStatistics_Accumulating(m, sheet_name) ==
    LET tallies == m.question_analytics[sheet_name]
        before == IF "total_answers" \in DOMAIN tallies THEN tallies.total_answers ELSE 0
        total_answers == before + tallies.correct + tallies.wrong + tallies.blank
    IN  [total_answers |-> total_answers,
         correct_pct |-> RoundDiv(tallies.correct * 10000, total_answers),
         wrong_pct |-> RoundDiv(tallies.wrong * 10000, total_answers),
         blank_pct |-> RoundDiv(tallies.blank * 10000, total_answers),
         difficulty |-> RoundDiv((total_answers - tallies.correct) * 100, total_answers),
         discrimination |-> 0]
            @@ tallies

\* Lines 747-801 for one sheet with at least one tallied answer.
QuestionStatistics(m, sheet_name) ==
    LET tallies == m.question_analytics[sheet_name]
        total_answers == tallies.correct + tallies.wrong + tallies.blank
        student_scores == StudentScores(m)
        n == Len(student_scores)
        upper_n == GroupSize(n)
        lower_n == GroupSize(n)
        upper_group == SubSeq(student_scores, 1, upper_n)
        lower_group == SubSeq(student_scores, n - lower_n + 1, n)
        correct_in(group) ==
            Cardinality({i \in 1..Len(group) :
                            AnsweredCorrectly(m.test_results[group[i]], sheet_name)})
    IN  [total_answers |-> total_answers,
         correct_pct |-> RoundDiv(tallies.correct * 10000, total_answers),
         wrong_pct |-> RoundDiv(tallies.wrong * 10000, total_answers),
         blank_pct |-> RoundDiv(tallies.blank * 10000, total_answers),
         difficulty |-> RoundDiv((total_answers - tallies.correct) * 100, total_answers),
         discrimination |->
             RoundDiv((correct_in(upper_group) * lower_n - correct_in(lower_group) * upper_n) * 100,
                      upper_n * lower_n)]
            @@ tallies

\* analyze_questions (lines 737-803).
analyze_questions(m) ==
    IF DOMAIN m.question_analytics = {} THEN print(m, "no_question_statistics", "", "")
    ELSE print([m EXCEPT !.question_analytics =
                    [sheet_name \in DOMAIN m.question_analytics |->
                        IF m.question_analytics[sheet_name].correct
                               + m.question_analytics[sheet_name].wrong
                               + m.question_analytics[sheet_name].blank = 0
                        THEN m.question_analytics[sheet_name]
                        ELSE QuestionStatistics(m, sheet_name)]],
               "questions_analyzed", "", "")

\* ------------------------------------------------------ main, phase 1
\* Lines 1216-1227: the directories, the instance, the required files and
\* the pdflatex probe.  Any exception ends the phase with a message.
Main1Begin ==
    /\ pc = "start"
    /\ \E pdflatex_found \in BOOLEAN :
         LET config_ok == config_json # None /\ config_json[1].valid
             m == IF config_ok THEN init(config_json[1].data) ELSE Blank
             ok == config_ok /\ questions_xlsx # None /\ pdflatex_found
         IN  /\ Becomes(IF ok THEN m ELSE print(m, "phase1_error", "", ""))
             /\ pc' = IF ok THEN "p1_load" ELSE "p1_failed"
    /\ potential_variants' = <<>>
    /\ randomness_metrics' = None
    /\ grading_runs' = 0
    /\ UNCHANGED <<files, phase1_exit, frame>>

\* Lines 1230 and 1283.
LoadQuestions ==
    /\ pc \in {"p1_load", "p2_load"}
    /\ \E pick \in (IF questions_xlsx = None THEN {<<>>} ELSE RowChoices(questions_xlsx[1])) :
         Becomes(load_questions_from_excel(Self, questions_xlsx, pick))
    /\ pc' = IF pc = "p1_load" THEN "p1_generate" ELSE "p2_answers"
    /\ UNCHANGED <<files, potential_variants, randomness_metrics, grading_runs, phase1_exit, frame>>

\* Lines 1233-1234.
GenerateVariants ==
    /\ pc = "p1_generate"
    /\ LET num_potential_variants ==
               ConfigGet(config, "num_potential_variants_for_randomness_check", 10)
       IN  \E shuffles \in [1..num_potential_variants -> ShuffleChoices(heap, questions_data)] :
             LET g == generate_test_variants(Self, num_potential_variants, shuffles)
             IN  /\ Becomes(g.m)
                 /\ potential_variants' = g.result
    /\ pc' = "p1_evaluate"
    /\ UNCHANGED <<files, randomness_metrics, grading_runs, phase1_exit, frame>>

\* Lines 1235-1238.
EvaluateRandomness ==
    /\ pc = "p1_evaluate"
    /\ randomness_metrics' = Some(evaluate_randomness_of_variants(Self, potential_variants))
    /\ Becomes(print(Self, "randomness_metrics", "", ""))
    /\ pc' = "p1_select"
    /\ UNCHANGED <<files, potential_variants, grading_runs, phase1_exit, frame>>

\* Lines 1239-1241.
SelectBestVariants ==
    /\ pc = "p1_select"
    /\ LET r == select_best_variants(Self, potential_variants, randomness_metrics[1],
                                     ConfigGet(config, "num_variants", 1))
       IN  IF r.raised
           THEN /\ Becomes(print(Self, "phase1_error", "", ""))
                /\ pc' = "p1_failed"
           ELSE /\ Becomes(print([Self EXCEPT !.variants = r.result], "variants_selected", "", ""))
                /\ pc' = "p1_pdfs"
    /\ UNCHANGED <<files, potential_variants, randomness_metrics, grading_runs, phase1_exit, frame>>

\* Line 1244.
GenerateTestPdfs ==
    /\ pc = "p1_pdfs"
    /\ \E compiled \in SUBSET {variants[i].variant_id : i \in 1..Len(variants)} :
         Becomes(generate_test_pdfs(Self, compiled))
    /\ pc' = "p1_keys"
    /\ UNCHANGED <<files, potential_variants, randomness_metrics, grading_runs, phase1_exit, frame>>

\* Line 1245.
GenerateAnswerKeysReport ==
    /\ pc = "p1_keys"
    /\ LET m == generate_answer_keys_report(Self)
       IN  /\ Becomes(m)
           /\ answer_keys_report_txt' = Some(MappingsFile(m))
           /\ question_mappings_json' = Some(MappingsFile(m))
    /\ pc' = "p1_template"
    /\ UNCHANGED <<config_json, questions_xlsx, student_answers_xlsx,
                   potential_variants, randomness_metrics, grading_runs, phase1_exit, frame>>

\* Lines 1250-1261: max() of an empty list raises.
WriteTemplate ==
    /\ pc = "p1_template"
    /\ IF variants = <<>>
       THEN /\ Becomes(print(Self, "phase1_error", "", ""))
            /\ pc' = "p1_failed"
            /\ UNCHANGED student_answers_xlsx
       ELSE /\ Becomes(print(Self, "phase1_done", "", ""))
            /\ pc' = "p1_done"
            /\ student_answers_xlsx' = Some(Template(variants))
    /\ UNCHANGED <<config_json, questions_xlsx, question_mappings_json,
                   answer_keys_report_txt, potential_variants, randomness_metrics,
                   grading_runs, phase1_exit, frame>>

\* ------------------------------------------------------ main, phase 2
\* The instructor fills student_answers.xlsx between the two phases.
FillAnswers(sheets) ==
    /\ pc \in {"p1_done", "p1_failed"}
    /\ IF student_answers_xlsx = None THEN TRUE ELSE student_answers_xlsx[1].rows = <<>>
    /\ \E sheet \in sheets : student_answers_xlsx' = Some(sheet)
    /\ UNCHANGED <<pc, config_json, questions_xlsx, question_mappings_json,
                   answer_keys_report_txt, fields, potential_variants,
                   randomness_metrics, grading_runs, phase1_exit, frame>>

Main2Begin_WithoutStudentAnswers ==
    /\ pc \in {"p1_done", "p1_failed"}
    /\ LET config_ok == config_json # None /\ config_json[1].valid
           m == IF config_ok THEN init(config_json[1].data) ELSE Blank
           ok == config_ok /\ question_mappings_json # None
       IN  IF ok
           THEN /\ Becomes([m EXCEPT
                       !.variant_answer_keys =
                           JsonLoadDict(question_mappings_json[1].variant_answer_keys),
                       !.variant_question_mappings =
                           JsonLoadDict(question_mappings_json[1].variant_question_mappings)])
                /\ pc' = "p2_load"
           ELSE /\ Becomes(print(m, "phase2_error", "", ""))
                /\ pc' = "p2_failed"
    /\ potential_variants' = <<>>
    /\ randomness_metrics' = None
    /\ grading_runs' = 0
    /\ phase1_exit' = Some([Self EXCEPT !.stdout = {}])
    /\ UNCHANGED <<files, frame>>

\* Lines 1266-1280: a new process; the instance, the required files, the
\* registry read from question_mappings.json.
Main2Begin ==
    /\ pc \in {"p1_done", "p1_failed"}
    /\ LET config_ok == config_json # None /\ config_json[1].valid
           m == IF config_ok THEN init(config_json[1].data) ELSE Blank
           ok == config_ok /\ student_answers_xlsx # None /\ question_mappings_json # None
       IN  IF ok
           THEN /\ Becomes([m EXCEPT
                       !.variant_answer_keys =
                           JsonLoadDict(question_mappings_json[1].variant_answer_keys),
                       !.variant_question_mappings =
                           JsonLoadDict(question_mappings_json[1].variant_question_mappings)])
                /\ pc' = "p2_load"
           ELSE /\ Becomes(print(m, "phase2_error", "", ""))
                /\ pc' = "p2_failed"
    /\ potential_variants' = <<>>
    /\ randomness_metrics' = None
    /\ grading_runs' = 0
    /\ phase1_exit' = Some([Self EXCEPT !.stdout = {}])
    /\ UNCHANGED <<files, frame>>

\* Line 1286.
LoadStudentAnswers ==
    /\ pc = "p2_answers"
    /\ Becomes(load_student_answers_from_excel(Self, student_answers_xlsx))
    /\ pc' = "p2_correct"
    /\ UNCHANGED <<files, potential_variants, randomness_metrics, grading_runs, phase1_exit, frame>>

\* Line 1289.
CorrectTests ==
    /\ pc = "p2_correct"
    /\ Becomes(correct_tests(Self))
    /\ grading_runs' = grading_runs + 1
    /\ pc' = "p2_analyze"
    /\ UNCHANGED <<files, potential_variants, randomness_metrics, phase1_exit, frame>>

\* Line 1292.
AnalyzeResults ==
    /\ pc = "p2_analyze"
    /\ Becomes(analyze_results(Self))
    /\ pc' = "p2_questions"
    /\ UNCHANGED <<files, potential_variants, randomness_metrics, grading_runs, phase1_exit, frame>>

\* Line 1295.
AnalyzeQuestions ==
    /\ pc = "p2_questions"
    /\ Becomes(analyze_questions(Self))
    /\ pc' = "p2_reports"
    /\ UNCHANGED <<files, potential_variants, randomness_metrics, grading_runs, phase1_exit, frame>>

\* The same instance is given another submission spreadsheet and grades
\* again: load_student_answers_from_excel, then correct_tests.
MaxGradingRuns == 2

Regrade(sheets) ==
    /\ pc = "p2_questions"
    /\ grading_runs < MaxGradingRuns
    /\ \E sheet \in sheets :
         /\ student_answers_xlsx' = Some(sheet)
         /\ Becomes(load_student_answers_from_excel(Self, Some(sheet)))
    /\ pc' = "p2_correct"
    /\ UNCHANGED <<config_json, questions_xlsx, question_mappings_json,
                   answer_keys_report_txt, potential_variants, randomness_metrics,
                   grading_runs, phase1_exit, frame>>

\* --------------------------------------------------- the input files
ConfigFile(data) == Some([valid |-> TRUE, data |-> data])

Row(text, correct, alts) ==
    [question_text |-> text, correct_answer |-> correct, alternatives |-> alts,
     punteggio_corretta |-> NullCell, punteggio_errata |-> NullCell,
     punteggio_non_data |-> NullCell, num_cols |-> NullCell]

SheetNames == <<"S1", "S2", "S3", "S4">>

NameSheets(w) ==
    [i \in 1..Len(w) |->
        [sheet_name |-> SheetNames[i], has_columns |-> w[i].has_columns, rows |-> w[i].rows]]

\* The most answers a sheet can give its question.
SheetAnswers(sheet) ==
    LET lens == {Len(BuildAnswers(sheet.rows[i])) : i \in 1..Len(sheet.rows)}
    IN  IF lens = {} THEN 0 ELSE CHOOSE n \in lens : \A l \in lens : l <= n

Workbooks(options) ==
    {NameSheets(w) : w \in {x \in SeqsUpTo(options, MaxSheets) :
        Sum([i \in 1..Len(x) |-> SheetAnswers(x[i])], 1..Len(x)) <= MaxBankAnswers}}

\* Sheets of the generation runs: one without the required columns, one with
\* no valid row, questions with one, two and three answers, two of them with
\* the same question text, one with two rows to draw from.
GenSheetOptions ==
    {[has_columns |-> FALSE, rows |-> <<>>],
     [has_columns |-> TRUE, rows |-> <<Row("", "x", <<>>)>>],
     [has_columns |-> TRUE, rows |-> <<Row("Q1", "x", <<>>)>>],
     [has_columns |-> TRUE, rows |-> <<Row("Q1", "x", <<"y">>)>>],
     [has_columns |-> TRUE, rows |-> <<Row("Q2", "x", <<"y", "x", "">>), Row("Q3", "z", <<>>)>>],
     [has_columns |-> TRUE, rows |-> <<Row("Q2", "x", <<"y", "y">>)>>]}

GenConfigs ==
    {[num_potential_variants_for_randomness_check |-> 1, num_variants |-> 1],
     [num_potential_variants_for_randomness_check |-> 1, num_variants |-> 2],
     [num_potential_variants_for_randomness_check |-> 2, num_variants |-> 1,
      choice_label_format |-> "letters_lower"],
     [num_potential_variants_for_randomness_check |-> 2, num_variants |-> 2,
      choice_label_format |-> "numbers"]}

NoProcess ==
    /\ pc = "start"
    /\ heap = Blank.heap
    /\ stdout = Blank.stdout
    /\ config = Blank.config
    /\ questions_data = Blank.questions_data
    /\ original_questions_order = Blank.original_questions_order
    /\ variants = Blank.variants
    /\ variant_answer_keys = Blank.variant_answer_keys
    /\ variant_question_mappings = Blank.variant_question_mappings
    /\ student_responses = Blank.student_responses
    /\ test_results = Blank.test_results
    /\ test_results_keys = Blank.test_results_keys
    /\ analysis_results = Blank.analysis_results
    /\ default_correct_score = Blank.default_correct_score
    /\ default_wrong_score = Blank.default_wrong_score
    /\ default_no_answer_score = Blank.default_no_answer_score
    /\ passing_threshold = Blank.passing_threshold
    /\ question_analytics = Blank.question_analytics
    /\ potential_variants = <<>>
    /\ randomness_metrics = None
    /\ grading_runs = 0
    /\ phase1_exit = None
    /\ frame = None

\* Phase 1 alone, on the generation workbooks.
InitGen ==
    /\ config_json \in {ConfigFile(c) : c \in GenConfigs}
    /\ questions_xlsx \in {Some(w) : w \in Workbooks(GenSheetOptions)}
    /\ student_answers_xlsx = None
    /\ question_mappings_json = None
    /\ answer_keys_report_txt = None
    /\ NoProcess

NextGen ==
    \/ Main1Begin
    \/ LoadQuestions
    \/ GenerateVariants
    \/ EvaluateRandomness
    \/ SelectBestVariants
    \/ GenerateTestPdfs
    \/ GenerateAnswerKeysReport
    \/ WriteTemplate

SpecGen == InitGen /\ [][NextGen]_vars

\* ------------------------------------------- the whole program (Spec)
ScoredRow(text, corretta, errata, non_data) ==
    [Row(text, "x", <<"y">>) EXCEPT !.punteggio_corretta = corretta,
                                    !.punteggio_errata = errata,
                                    !.punteggio_non_data = non_data]

\* Sheets of the grading runs: no valid row, a question scored by the
\* defaults, and questions with score overrides (all three, or some; a cell
\* that is not a number is no override).
MainSheetOptions ==
    {[has_columns |-> TRUE, rows |-> <<Row("Q0", "", <<>>)>>],
     [has_columns |-> TRUE, rows |-> <<ScoredRow("Q1", NullCell, NullCell, NullCell)>>],
     [has_columns |-> TRUE, rows |-> <<ScoredRow("Q2", NumCell(5), NumCell(-2), NullCell)>>],
     [has_columns |-> TRUE, rows |-> <<ScoredRow("Q3", TextCell, NumCell(-1), NumCell(2))>>]}

MainWorkbooks ==
    {NameSheets(w) : w \in {x \in SeqsUpTo(MainSheetOptions, 2) :
        x # <<>> /\ \A i, j \in 1..Len(x) : i < j => x[i] # x[j]}}

\* config.json with the built-in scores, with scores and threshold of its
\* own, and with numbers for labels.
MainConfigs ==
    {[num_potential_variants_for_randomness_check |-> 1, num_variants |-> 1],
     [num_potential_variants_for_randomness_check |-> 1, num_variants |-> 1,
      choice_label_format |-> "letters_lower",
      default_correct_score |-> 3, default_wrong_score |-> -1,
      default_no_answer_score |-> 0, passing_threshold |-> 50],
     [num_potential_variants_for_randomness_check |-> 1, num_variants |-> 1,
      choice_label_format |-> "numbers"]}

InvalidConfigFile == Some([valid |-> FALSE, data |-> [syntax_error |-> TRUE]])

\* Rows of a submission spreadsheet with the answer columns "1" and "2":
\* the cells as typed, and which of them are number cells.
Answers(a1, a2, numbers) ==
    [answers |-> [c \in {"1", "2"} |-> IF c = "1" THEN a1 ELSE a2], numbers |-> numbers]

\* Letters in either case, empty cells, and the number 2 typed as a number.
AnswerPatterns == {Answers("A", "b", {}), Answers("", "A", {}), Answers("2", "", {"1"})}

SubmissionRows(students, variant_ids, patterns) ==
    {[student_id |-> st, variant_id |-> v, answers |-> p.answers, numbers |-> p.numbers] :
        st \in students, v \in variant_ids, p \in patterns}

Submissions(rows, n) ==
    {[has_student_id |-> TRUE, has_variant_id |-> TRUE,
      answer_cols |-> {"1", "2"}, rows |-> r] : r \in SeqsUpTo(rows, n)}

\* Spreadsheets from which the instructor removed the column "2", or both
\* answer columns.
FewerColumnsSubmissions ==
    {[has_student_id |-> TRUE, has_variant_id |-> TRUE, answer_cols |-> cols,
      rows |-> <<[student_id |-> "s1", variant_id |-> "1.0",
                  answers |-> [c \in cols |-> a], numbers |-> {}]>>] :
        a \in {"A", ""}, cols \in {{"1"}, {}}}

MainSubmissions ==
    Submissions(SubmissionRows({"s1", "s2"}, {"1.0", "9"}, AnswerPatterns), MaxRows)
        \cup FewerColumnsSubmissions

Init ==
    /\ config_json \in {ConfigFile(c) : c \in MainConfigs} \cup {None, InvalidConfigFile}
    /\ questions_xlsx \in {Some(w) : w \in MainWorkbooks} \cup {None}
    /\ student_answers_xlsx = None
    /\ question_mappings_json = None
    /\ answer_keys_report_txt = None
    /\ NoProcess

Next ==
    \/ NextGen
    \/ FillAnswers(MainSubmissions)
    \/ Main2Begin
    \/ LoadStudentAnswers
    \/ CorrectTests
    \/ AnalyzeResults
    \/ AnalyzeQuestions

Spec == Init /\ [][Next]_vars

\* --------------------------- a second grading run on the same instance
\* The workbooks of these runs have one sheet.
RegradeSubmissions ==
    Submissions(SubmissionRows({"s1", "s2"}, {"1", "9"}, {Answers("A", "b", {})}), MaxRows)

InitRegrade ==
    /\ config_json \in {ConfigFile(c) : c \in MainConfigs}
    /\ questions_xlsx \in {Some(w) : w \in {x \in MainWorkbooks : Len(x) = 1}}
    /\ student_answers_xlsx = None
    /\ question_mappings_json = None
    /\ answer_keys_report_txt = None
    /\ NoProcess

NextRegrade ==
    \/ NextGen
    \/ FillAnswers(RegradeSubmissions)
    \/ Main2Begin
    \/ LoadStudentAnswers
    \/ CorrectTests
    \/ AnalyzeResults
    \/ AnalyzeQuestions
    \/ Regrade(RegradeSubmissions)

SpecRegrade == InitRegrade /\ [][NextRegrade]_vars

\* ----------------- the instance of phase 1 grades, keeping its variants
\* The instance that generated the variants loads the filled spreadsheet:
\* load_student_answers_from_excel on the instance main built at line 1219.
GradeWithPhase1Instance ==
    /\ pc = "p1_done"
    /\ IF student_answers_xlsx = None THEN FALSE ELSE student_answers_xlsx[1].rows # <<>>
    /\ Becomes(load_student_answers_from_excel(Self, student_answers_xlsx))
    /\ pc' = "p2_correct"
    /\ UNCHANGED <<files, potential_variants, randomness_metrics, grading_runs, phase1_exit, frame>>

\* analyze_results, then analyze_questions, are called once more on the
\* instance that has just run them (lines 633 and 737).
Reanalyze ==
    /\ pc = "p2_reports"
    /\ Becomes(analyze_questions(analyze_results(Self)))
    /\ pc' = "p2_reanalyzed"
    /\ UNCHANGED <<files, potential_variants, randomness_metrics, grading_runs, phase1_exit, frame>>

\* One-sheet and two-sheet workbooks with overrides of every sign.
KeptSheetOptions ==
    {[has_columns |-> TRUE, rows |-> <<ScoredRow("Q1", NullCell, NullCell, NullCell)>>],
     [has_columns |-> TRUE, rows |-> <<ScoredRow("Q2", NumCell(5), NumCell(-2), NullCell)>>],
     [has_columns |-> TRUE, rows |-> <<ScoredRow("Q3", NumCell(0), NumCell(-1), NumCell(2))>>],
     [has_columns |-> TRUE, rows |-> <<ScoredRow("Q4", NumCell(-2), NumCell(1), NumCell(0))>>]}

KeptWorkbooks ==
    {NameSheets(w) : w \in {x \in SeqsUpTo(KeptSheetOptions, 2) :
        x # <<>> /\ \A i, j \in 1..Len(x) : i < j => x[i] # x[j]}}

KeptSubmissions ==
    Submissions(SubmissionRows({"s1", "s2"}, {"1"},
                               {Answers("A", "b", {}), Answers("", "A", {})}), MaxRows)

\* The configurations that label the answers with letters.
KeptConfigs ==
    {c \in MainConfigs :
        "choice_label_format" \in DOMAIN c => c.choice_label_format # "numbers"}

InitKept ==
    /\ config_json \in {ConfigFile(c) : c \in KeptConfigs}
    /\ questions_xlsx \in {Some(w) : w \in KeptWorkbooks}
    /\ student_answers_xlsx = None
    /\ question_mappings_json = None
    /\ answer_keys_report_txt = None
    /\ NoProcess

NextKept ==
    \/ NextGen
    \/ FillAnswers(KeptSubmissions)
    \/ GradeWithPhase1Instance
    \/ CorrectTests
    \/ AnalyzeResults
    \/ AnalyzeQuestions
    \/ Reanalyze

SpecKept == InitKept /\ [][NextKept]_vars

\* ------------------------------------------- the phases, inputs missing
\* Between the phases a required file of phase 2 is removed from the
\* working directory.
RemoveInput ==
    /\ pc = "p1_done"
    /\ question_mappings_json # None
    /\ student_answers_xlsx # None
    /\ \E removed \in {"student_answers.xlsx", "question_mappings.json"} :
         /\ student_answers_xlsx' =
                IF removed = "student_answers.xlsx" THEN None ELSE student_answers_xlsx
         /\ question_mappings_json' =
                IF removed = "question_mappings.json" THEN None ELSE question_mappings_json
    /\ UNCHANGED <<pc, config_json, questions_xlsx, answer_keys_report_txt, fields,
                   potential_variants, randomness_metrics, grading_runs, phase1_exit, frame>>

\* Both phases with config.json and questions.xlsx present, absent or, for
\* the configuration, not valid JSON.
InitFatal ==
    /\ config_json \in {ConfigFile(c) : c \in KeptConfigs} \cup {None, InvalidConfigFile}
    /\ questions_xlsx \in {Some(w) : w \in {x \in MainWorkbooks : Len(x) = 1}} \cup {None}
    /\ student_answers_xlsx = None
    /\ question_mappings_json = None
    /\ answer_keys_report_txt = None
    /\ NoProcess

NextFatal ==
    \/ NextGen
    \/ FillAnswers(RegradeSubmissions)
    \/ RemoveInput
    \/ Main2Begin
    \/ LoadStudentAnswers
    \/ CorrectTests
    \/ AnalyzeResults
    \/ AnalyzeQuestions

SpecFatal == InitFatal /\ [][NextFatal]_vars

\* ------------------------------------------------------------ the test of LatexCustomCommand
\* The names randomizer.py binds at module level: its imports (lines 1-18),
\* its two classes (lines 20 and 24) and main (line 1209).
ModuleNames ==
    {"pd", "random", "subprocess", "os", "json", "re", "datetime", "np", "copy",
     "argparse", "plt", "mcolors", "stats", "defaultdict", "Document", "NoEscape",
     "Package", "Environment", "Multicols", "TestGeneratorAnalyzer", "main"}

\* The calls the four tests make: by keyword, by position, or with the
\* command alone; an omitted argument is None.
TestCommands == {"testcommand", "othercommand"}
TestArguments == {None, Some(<<"arg1">>), Some(<<"arg1", "arg2">>)}
TestOptions == {None, Some(<<"opt1">>), Some(<<"opt1", "opt2">>)}
TestExtraArguments == {None, Some("extra1"), Some("extra_arg")}

TestCalls ==
    [style : {"keyword", "positional"}, command : TestCommands,
     arguments : TestArguments, options : TestOptions,
     extra_arguments : TestExtraArguments]
    \cup [style : {"command_only"}, command : TestCommands,
          arguments : {None}, options : {None}, extra_arguments : {None}]

\* Nothing of the instance or of the directory takes part.
Detached ==
    /\ config_json = None /\ questions_xlsx = None
    /\ student_answers_xlsx = None /\ question_mappings_json = None
    /\ answer_keys_report_txt = None
    /\ heap = Blank.heap
    /\ stdout = Blank.stdout
    /\ config = Blank.config
    /\ questions_data = Blank.questions_data
    /\ original_questions_order = Blank.original_questions_order
    /\ variants = Blank.variants
    /\ variant_answer_keys = Blank.variant_answer_keys
    /\ variant_question_mappings = Blank.variant_question_mappings
    /\ student_responses = Blank.student_responses
    /\ test_results = Blank.test_results
    /\ test_results_keys = Blank.test_results_keys
    /\ analysis_results = Blank.analysis_results
    /\ default_correct_score = Blank.default_correct_score
    /\ default_wrong_score = Blank.default_wrong_score
    /\ default_no_answer_score = Blank.default_no_answer_score
    /\ passing_threshold = Blank.passing_threshold
    /\ question_analytics = Blank.question_analytics
    /\ potential_variants = <<>>
    /\ randomness_metrics = None
    /\ grading_runs = 0
    /\ phase1_exit = None

InitTest ==
    /\ pc = "fixture"
    /\ frame \in [call : TestCalls, base_calls : {<<>>}]
    /\ Detached

\* Line 26 of the test: from randomizer import LatexCustomCommand, an
\* ImportError when the module binds no such name.
ImportLatexCustomCommand ==
    /\ pc = "fixture"
    /\ pc' = IF "LatexCustomCommand" \in ModuleNames THEN "imported" ELSE "import_error"
    /\ UNCHANGED <<files, fields, potential_variants, randomness_metrics,
                   grading_runs, phase1_exit, frame>>

NextTest == ImportLatexCustomCommand

SpecTest == InitTest /\ [][NextTest]_vars

\* ------------------------------------------------------------ compile_latex_to_pdf, step by step
\* Line 226.
Extensions == {".aux", ".log", ".out", ".toc", ".fls", ".fdb_latexmk"}

\* Lines 197-204: the call, in a directory where the PDF of an earlier run
\* and temporary files next to the .tex file may exist.
InitCompile ==
    /\ pc = "compile_generate_tex"
    /\ frame \in [tex_generated : {FALSE}, outcomes : {<<>>}, raised : {FALSE},
                  pdf_exists : BOOLEAN, temp_files : SUBSET Extensions,
                  cleanups : {0}, returned : {None}]
    /\ Detached

\* Lines 219-221: except Exception, the message and False; finally follows.
Unexpected(f) == [f EXCEPT !.raised = TRUE, !.returned = Some(FALSE)]

\* Line 206: generate_tex writes the .tex file or raises.
GenerateTex ==
    /\ pc = "compile_generate_tex"
    /\ \E written \in BOOLEAN :
         IF written
         THEN /\ frame' = [frame EXCEPT !.tex_generated = TRUE]
              /\ pc' = "compile_run"
              /\ UNCHANGED fields
         ELSE /\ frame' = Unexpected(frame)
              /\ Becomes(print(Self, "unexpected_error", "generate_tex", ""))
              /\ pc' = "compile_cleanup"
    /\ UNCHANGED <<files, potential_variants, randomness_metrics, grading_runs, phase1_exit>>

\* What one run of the compiler can do: write the PDF, end with an error
\* and leave the directory as it was, or not start at all (subprocess.run
\* raises, for instance when pdflatex is not installed).
Outcomes == {"pdf_written", "compiler_error", "raises"}

RunPdflatex_UntilSuccess ==
    /\ pc = "compile_run"
    /\ \E outcome \in Outcomes :
         LET ran == [frame EXCEPT !.outcomes = Append(@, outcome),
                                  !.pdf_exists = IF outcome = "pdf_written" THEN TRUE ELSE @]
         IN IF outcome = "raises"
            THEN /\ frame' = Unexpected(ran)
                 /\ Becomes(print(Self, "unexpected_error", "subprocess.run", ""))
                 /\ pc' = "compile_cleanup"
            ELSE /\ frame' = ran
                 /\ pc' = IF Len(ran.outcomes) = 2 \/ outcome = "pdf_written"
                          THEN "compile_check" ELSE "compile_run"
                 /\ UNCHANGED fields
    /\ UNCHANGED <<files, potential_variants, randomness_metrics, grading_runs, phase1_exit>>

\* Lines 207-212: one pass of for _ in range(2); the exit code of the
\* compiler is not looked at.
RunPdflatex ==
    /\ pc = "compile_run"
    /\ \E outcome \in Outcomes :
         LET ran == [frame EXCEPT !.outcomes = Append(@, outcome),
                                  !.pdf_exists = IF outcome = "pdf_written" THEN TRUE ELSE @]
         IN IF outcome = "raises"
            THEN /\ frame' = Unexpected(ran)
                 /\ Becomes(print(Self, "unexpected_error", "subprocess.run", ""))
                 /\ pc' = "compile_cleanup"
            ELSE /\ frame' = ran
                 /\ pc' = IF Len(ran.outcomes) = 2 THEN "compile_check" ELSE "compile_run"
                 /\ UNCHANGED fields
    /\ UNCHANGED <<files, potential_variants, randomness_metrics, grading_runs, phase1_exit>>

\* Lines 213-218.
CheckPdf ==
    /\ pc = "compile_check"
    /\ IF frame.pdf_exists
       THEN /\ frame' = [frame EXCEPT !.returned = Some(TRUE)]
            /\ UNCHANGED fields
       ELSE /\ frame' = [frame EXCEPT !.returned = Some(FALSE)]
            /\ Becomes(print(Self, "pdf_error", "", ""))
    /\ pc' = "compile_cleanup"
    /\ UNCHANGED <<files, potential_variants, randomness_metrics, grading_runs, phase1_exit>>

\* Lines 222-234: finally, _cleanup_latex_files; every temporary file that
\* exists is removed, or os.remove raises OSError and the file is named.
CleanupLatexFiles ==
    /\ pc = "compile_cleanup"
    /\ \E kept \in SUBSET frame.temp_files :
         /\ frame' = [frame EXCEPT !.temp_files = kept, !.cleanups = @ + 1]
         /\ Becomes([Self EXCEPT !.stdout = @ \cup {<<"cannot_remove", ext, "">> : ext \in kept}])
    /\ pc' = "compile_returned"
    /\ UNCHANGED <<files, potential_variants, randomness_metrics, grading_runs, phase1_exit>>

NextCompile == GenerateTex \/ RunPdflatex \/ CheckPdf \/ CleanupLatexFiles

SpecCompile == InitCompile /\ [][NextCompile]_vars

\* ------------------------------- submissions without a required column
\* Spreadsheets from which the column student_id, the column variant_id or
\* both were removed, next to complete ones; every sheet has a row.
ColumnSubmissions ==
    {[sheet EXCEPT !.has_student_id = with_student_id, !.has_variant_id = with_variant_id] :
        sheet \in {s \in RegradeSubmissions : s.rows # <<>>},
        with_student_id \in BOOLEAN, with_variant_id \in BOOLEAN}

NextColumns ==
    \/ NextGen
    \/ FillAnswers(ColumnSubmissions)
    \/ Main2Begin
    \/ LoadStudentAnswers
    \/ CorrectTests

SpecColumns == InitRegrade /\ [][NextColumns]_vars

\* ------------------------------------------------ generation claims
Range(s) == {s[i] : i \in 1..Len(s)}

\* The bank as the questions themselves.
Bank == [k \in 1..Len(questions_data) |-> heap[questions_data[k]]]

Questions(variant) == [k \in 1..Len(variant.questions) |-> heap[variant.questions[k]]]

Candidates == Range(potential_variants) \cup Range(variants)

Count(s, x) == Cardinality({i \in 1..Len(s) : s[i] = x})

\* ------------------------------------------------- selection claims
\* The place of a kept variant among the candidates (variant ids are
\* distinct).
CandidateIndex(v) == CHOOSE j \in 1..Len(potential_variants) : potential_variants[j] = v

Score(j) == VariantScore(Self, potential_variants[j])

\* C11: after select_best_variants on P candidates with count N, the kept
\* variants are min(N, P) distinct candidates in descending order of score;
\* every candidate left out scores no higher than any kept one; and of two
\* candidates with equal scores the one generated first comes first in the
\* result and is the one kept at the cut-off.
C11_TopScoresStableOrder ==
    pc = "p1_pdfs" =>
        LET P == Len(potential_variants)
            N == ConfigGet(config, "num_variants", 1)
            kept == {CandidateIndex(variants[i]) : i \in 1..Len(variants)}
        IN  /\ Len(variants) = Min(N, P)
            /\ \A i \in 1..Len(variants) : variants[i] \in Range(potential_variants)
            /\ Cardinality(kept) = Len(variants)
            /\ \A i, k \in 1..Len(variants) :
                   i < k =>
                       LET a == CandidateIndex(variants[i])
                           b == CandidateIndex(variants[k])
                       IN  /\ ~RLess(Score(a), Score(b))
                           /\ REq(Score(a), Score(b)) => a < b
            /\ \A j \in (1..P) \ kept :
                   \A a \in kept :
                       /\ ~RLess(Score(a), Score(j))
                       /\ REq(Score(a), Score(j)) => a < j

\* Two candidates of a two-question bank have the same positive score, one
\* is asked for, and the first generated is the one kept.
C11_Witness ==
    /\ pc = "p1_pdfs"
    /\ Len(potential_variants) = 2
    /\ Len(questions_data) = 2
    /\ REq(Score(1), Score(2))
    /\ RLess(<<0, 1>>, Score(1))
    /\ variants = <<potential_variants[1]>>

\* A fraction from 0 to 1, both included.
InUnitInterval(r) == ~RLess(r, <<0, 1>>) /\ ~RLess(<<1, 1>>, r)

\* C12: for every candidate of a bank with at least one question, wherever
\* select_best_variants computes scores (the original order is not empty),
\* the question-order score, the answer-order score and their average are
\* each at least 0 and at most 1.
C12_ScoresInUnitInterval ==
    (questions_data # <<>> /\ original_questions_order # <<>>) =>
        \A v \in Candidates :
            /\ InUnitInterval(QuestionOrderScore(Self, v))
            /\ InUnitInterval(AnswerOrderScore(heap, v))
            /\ InUnitInterval(VariantScore(Self, v))

\* Selection has scored two candidates of a two-question bank: one has every
\* question moved and every correct answer last (score 1), the other scores
\* less.
C12_Witness ==
    /\ pc = "p1_pdfs"
    /\ Len(questions_data) = 2
    /\ Len(potential_variants) = 2
    /\ \E j \in 1..2 :
           /\ REq(QuestionOrderScore(Self, potential_variants[j]), <<1, 1>>)
           /\ REq(AnswerOrderScore(heap, potential_variants[j]), <<1, 1>>)
           /\ RLess(Score(3 - j), Score(j))

\* ------------------------------------------------- registry claims
\* generate_answer_keys_report has run in this phase-1 process.
Registered == pc \in {"p1_template", "p1_done"} \/ (pc = "p1_failed" /\ question_mappings_json # None)

\* The question numbers "1" .. "K".
NumbersUpTo(K) == {ToString(k) : k \in 1..K}

\* C13: after generate_answer_keys_report, for every kept variant with K
\* questions both registry mappings of its id have exactly the question
\* numbers "1" .. "K", and the category mapping takes them one-to-one onto
\* the sheet names of the bank.
C13_QuestionNumbersContiguous ==
    Registered =>
        \A i \in 1..Len(variants) :
            LET id == variants[i].variant_id
                K == Len(variants[i].questions)
            IN  /\ id \in DOMAIN variant_answer_keys
                /\ id \in DOMAIN variant_question_mappings
                /\ DOMAIN variant_answer_keys[id] = NumbersUpTo(K)
                /\ DOMAIN variant_question_mappings[id] = NumbersUpTo(K)
                /\ \A q1, q2 \in NumbersUpTo(K) :
                       q1 # q2 => variant_question_mappings[id][q1]
                                     # variant_question_mappings[id][q2]
                /\ {variant_question_mappings[id][q] : q \in NumbersUpTo(K)}
                       = {Bank[b].sheet_name : b \in 1..Len(Bank)}

\* The registry holds a kept variant of two questions whose question "1"
\* comes from the second sheet of the bank.
C13_Witness ==
    /\ pc = "p1_template"
    /\ \E i \in 1..Len(variants) :
           /\ Len(variants[i].questions) = 2
           /\ DOMAIN variant_question_mappings[variants[i].variant_id] = {"1", "2"}
           /\ variant_question_mappings[variants[i].variant_id]["1"] = Bank[2].sheet_name

\* The place, counted from 1, of the answer with is_correct in the final
\* answer order of a question.
CorrectPosition(q) == CHOOSE a \in 1..Len(q.answers) : q.answers[a].is_correct

LabelStyle == ConfigGet(config, "choice_label_format", "letters_upper")

\* C14: after generate_answer_keys_report, for every kept variant and every
\* place k of its final question order, the registry holds under question
\* number k the sheet name of the question at that place and the label of
\* the place of its correct answer: the letter of that place in upper case
\* or in lower case, or the number of that place, as choice_label_format
\* says.
C14_KeyIsLabelOfCorrectAnswer ==
    Registered =>
        \A i \in 1..Len(variants) :
            \A k \in 1..Len(variants[i].questions) :
                LET id == variants[i].variant_id
                    q == Questions(variants[i])[k]
                    a == CorrectPosition(q)
                IN  /\ variant_question_mappings[id][ToString(k)] = q.sheet_name
                    /\ variant_answer_keys[id][ToString(k)] =
                           IF LabelStyle = "letters_upper" THEN UpperLetters[a]
                           ELSE IF LabelStyle = "letters_lower" THEN LowerLetters[a]
                           ELSE ToString(a)

\* With lower-case labels, the second question of a kept variant has its
\* correct answer in second place and the registry holds "b" for it.
C14_Witness ==
    /\ pc = "p1_template"
    /\ LabelStyle = "letters_lower"
    /\ \E i \in 1..Len(variants) :
           /\ Len(variants[i].questions) = 2
           /\ CorrectPosition(Questions(variants[i])[2]) = 2
           /\ variant_answer_keys[variants[i].variant_id]["2"] = "b"

\* ---------------------------------------------------- grading claims
\* The question of the bank loaded from a sheet, <<>> when the sheet gave
\* none.
Originating(sheet_name) ==
    LET found == {b \in 1..Len(Bank) : Bank[b].sheet_name = sheet_name}
    IN  IF found = {} THEN None ELSE Some(Bank[CHOOSE b \in found : TRUE])

\* The override cell that weighs a stored answer, by its outcome.
OutcomeKey(answer) ==
    IF answer.response = "blank" THEN "punteggio_non_data"
    ELSE IF Upper(answer.response) = Upper(answer.correct) THEN "punteggio_corretta"
    ELSE "punteggio_errata"

Override(answer) ==
    IF Originating(answer.sheet) = None THEN None
    ELSE Originating(answer.sheet)[1][OutcomeKey(answer)]

\* The default weight the instance holds for the outcome of a stored answer.
InstanceDefault(answer) ==
    IF OutcomeKey(answer) = "punteggio_corretta" THEN default_correct_score
    ELSE IF OutcomeKey(answer) = "punteggio_errata" THEN default_wrong_score
    ELSE default_no_answer_score

\* The default weight the configuration file gives the outcome.
ConfiguredDefault(answer) ==
    IF OutcomeKey(answer) = "punteggio_corretta"
    THEN ConfigGet(config, "default_correct_score", 4)
    ELSE IF OutcomeKey(answer) = "punteggio_errata"
    THEN ConfigGet(config, "default_wrong_score", 0)
    ELSE ConfigGet(config, "default_no_answer_score", 1)

\* correct_tests of a phase-2 run has just returned.
Graded == pc = "p2_analyze" /\ student_responses # None

\* C1: after correct_tests of a phase-2 run, every graded answer of every
\* student carries the per-question override of the question it came from
\* when the workbook gives one for its outcome, and the instance's default
\* weight for that outcome only when it gives none.
C1_OverrideElseDefault ==
    Graded =>
        \A st \in DOMAIN test_results :
            \A c \in DOMAIN test_results[st].answers :
                LET answer == test_results[st].answers[c]
                IN  answer.points = IF Override(answer) # None THEN Override(answer)[1]
                                    ELSE InstanceDefault(answer)

\* C2: after correct_tests, an answer to a question without an override for
\* its outcome carries the default weight of the configuration file (the
\* built-in 4, 0, 1 only for a key the file does not set).
C2_ConfiguredDefaultScores ==
    Graded =>
        \A st \in DOMAIN test_results :
            \A c \in DOMAIN test_results[st].answers :
                LET answer == test_results[st].answers[c]
                IN  Override(answer) = None => answer.points = ConfiguredDefault(answer)

\* C3: the pass_rate of analyze_results is the share of the graded students
\* whose percentage is at least the passing_threshold of the configuration
\* file times 100 (hundredths of a percent; 0.58 when the file sets none).
C3_PassRateUsesConfiguredThreshold ==
    (pc = "p2_questions" /\ analysis_results # None) =>
        LET students == DOMAIN test_results
            threshold == ConfigGet(config, "passing_threshold", 58) * 100
            passed == {st \in students : test_results[st].percentage >= threshold}
        IN  analysis_results[1].pass_rate
                = RoundDiv(Cardinality(passed) * 10000, Cardinality(students))

\* C4: in phase 1, while generate_test_variants has produced no candidate,
\* question_mappings.json does not exist.
C4_NoMappingsFileWithoutVariants ==
    potential_variants = <<>> => question_mappings_json = None

\* The fields of a graded result the round trip is about.
GradedResult(r) ==
    [correct_count |-> r.correct_count, wrong_count |-> r.wrong_count,
     blank_count |-> r.blank_count, correct_score |-> r.correct_score,
     wrong_score |-> r.wrong_score, blank_score |-> r.blank_score,
     total_score |-> r.total_score, max_possible_score |-> r.max_possible_score,
     percentage |-> r.percentage]

\* The results of the phase-1 instance, had it loaded and graded the same
\* submission spreadsheet.
GradedInPhase1 ==
    correct_tests(load_student_answers_from_excel(phase1_exit[1], student_answers_xlsx)).test_results

\* C5: the registry the phase-2 instance read from question_mappings.json is
\* the registry of the phase-1 instance that wrote it, and the first grading
\* of the phase-2 instance gives every student the counts, scores, maximum
\* and percentage the phase-1 instance, which still holds the selected
\* variants, gives on the same submissions.
C5_RoundTripSameRegistrySameResults ==
    (Graded /\ grading_runs = 1 /\ phase1_exit # None) =>
        /\ variant_answer_keys = phase1_exit[1].variant_answer_keys
        /\ variant_question_mappings = phase1_exit[1].variant_question_mappings
        /\ DOMAIN test_results = DOMAIN GradedInPhase1
        /\ \A st \in DOMAIN test_results :
               GradedResult(test_results[st]) = GradedResult(GradedInPhase1[st])

\* The rows of the loaded submission spreadsheet, and whether the variant of
\* a row is in the registry.
SubmissionRowsLoaded == student_responses[1].rows

InRegistry(row) ==
    /\ VariantId(student_responses[1], row) \in DOMAIN variant_answer_keys
    /\ VariantId(student_responses[1], row) \in DOMAIN variant_question_mappings

StudentsGraded ==
    {StudentId(student_responses[1], SubmissionRowsLoaded[i]) :
        i \in {j \in 1..Len(SubmissionRowsLoaded) : InRegistry(SubmissionRowsLoaded[j])}}

\* The row that gave a student the result in test_results: the last row of
\* the student whose variant is in the registry.
GradedRow(st) ==
    CHOOSE i \in 1..Len(SubmissionRowsLoaded) :
        /\ StudentId(student_responses[1], SubmissionRowsLoaded[i]) = st
        /\ InRegistry(SubmissionRowsLoaded[i])
        /\ \A j \in (i + 1)..Len(SubmissionRowsLoaded) :
               ~(StudentId(student_responses[1], SubmissionRowsLoaded[j]) = st
                 /\ InRegistry(SubmissionRowsLoaded[j]))

\* The cells of that row as they were typed into student_answers.xlsx.
TypedAnswers(st) == student_answers_xlsx[1].rows[GradedRow(st)].answers

\* C15: after the first correct_tests of an instance, every graded student
\* has an outcome for exactly the answer columns that are question numbers
\* of the registry of the student's variant: blank for an empty cell,
\* correct for a cell that equals the registry's label but for case, wrong
\* for any other; the three counts count these outcomes, and the other
\* answer columns have no outcome.
C15_OutcomePerRegistryColumn ==
    (Graded /\ grading_runs = 1) =>
        \A st \in DOMAIN test_results :
            LET result == test_results[st]
                key_mapping == variant_answer_keys[result.variant_id]
                cols == student_answers_xlsx[1].answer_cols \cap DOMAIN key_mapping
                expected == [c \in cols |-> Outcome(TypedAnswers(st)[c], key_mapping[c])]
                of(kind) == Cardinality({c \in cols : expected[c] = kind})
            IN  /\ DOMAIN result.answers = cols
                /\ result.blank_count = of("blank")
                /\ result.correct_count = of("correct")
                /\ result.wrong_count = of("wrong")
                /\ \A c \in cols : (result.answers[c].response = "blank")
                                        <=> (expected[c] = "blank")

\* The correct weight of the question behind a question number of a
\* variant: the override of the bank question, else the instance's default.
CorrectWeight(variant_id, q) ==
    LET origin == Originating(variant_question_mappings[variant_id][q])
    IN  IF origin # None /\ origin[1].punteggio_corretta # None
        THEN origin[1].punteggio_corretta[1]
        ELSE default_correct_score

\* C16: after correct_tests, the max_possible_score of every graded student
\* is the sum of the correct weights of all the questions of the student's
\* variant, whichever answer columns the submission spreadsheet has.
C16_MaxIsSumOverVariantQuestions ==
    Graded =>
        \A st \in DOMAIN test_results :
            LET id == test_results[st].variant_id
                nums == DOMAIN variant_question_mappings[id]
            IN  test_results[st].max_possible_score
                    = Sum([q \in nums |-> CorrectWeight(id, q)], nums)

\* total / max x 100 to two decimals, in hundredths of a percent, for a
\* maximum that is not 0.
PercentOf(total, max) ==
    IF max > 0 THEN RoundDiv(total * 10000, max) ELSE RoundDiv((0 - total) * 10000, 0 - max)

\* C17 as stated: after correct_tests, for every graded student total_score
\* is the sum of the points of the student's outcomes, and percentage is
\* total_score / max_possible_score x 100 to two decimals when
\* max_possible_score is not 0 and 0 when it is 0.
C17_TotalAndPercentage ==
    Graded =>
        \A st \in DOMAIN test_results :
            LET result == test_results[st]
                cols == DOMAIN result.answers
            IN  /\ result.total_score = Sum([c \in cols |-> result.answers[c].points], cols)
                /\ result.percentage =
                       IF result.max_possible_score = 0 THEN 0
                       ELSE PercentOf(result.total_score, result.max_possible_score)

\* C17 as amended: after correct_tests, for every graded student
\* total_score is the sum of the points of the student's outcomes, and
\* percentage is total_score / max_possible_score x 100 to two decimals
\* when max_possible_score is positive and 0 when it is 0 or negative.
C17_PercentageOfPositiveMaximum ==
    Graded =>
        \A st \in DOMAIN test_results :
            LET result == test_results[st]
                cols == DOMAIN result.answers
            IN  /\ result.total_score = Sum([c \in cols |-> result.answers[c].points], cols)
                /\ result.percentage =
                       IF result.max_possible_score > 0
                       THEN RoundDiv(result.total_score * 10000, result.max_possible_score)
                       ELSE 0

\* A student was graded with a maximum of 0 and a total that is not 0: the
\* percentage is 0.
C17_Witness ==
    /\ Graded
    /\ \E st \in DOMAIN test_results :
           /\ test_results[st].max_possible_score = 0
           /\ test_results[st].total_score # 0
           /\ test_results[st].percentage = 0

\* C6: after correct_tests, for every row whose variant is not in the
\* registry a warning naming the variant and the student was printed and,
\* unless another row of the sheet grades that student, the student has no
\* entry in test_results; every student of a row whose variant is in the
\* registry has an entry; and the call ran to its end.
C6_UnknownVariantSkippedWithWarning ==
    Graded =>
        /\ \A i \in 1..Len(SubmissionRowsLoaded) :
               LET row == SubmissionRowsLoaded[i]
                   student_id == StudentId(student_responses[1], row)
               IN  IF InRegistry(row) THEN student_id \in DOMAIN test_results
                   ELSE /\ <<"variant_not_found", VariantId(student_responses[1], row),
                              student_id>> \in stdout
                        /\ student_id \notin StudentsGraded
                               => student_id \notin DOMAIN test_results
        /\ <<"tests_corrected", "", "">> \in stdout

\* C7: after any call of correct_tests, the first or a later one, the
\* students of test_results are exactly the students graded in that call.
C7_ResultsRecomputedWholesale ==
    Graded => DOMAIN test_results = StudentsGraded

\* C8: every variant returned by generate_test_variants and every variant
\* kept by select_best_variants has as many questions as the bank and holds
\* each sheet_name of the bank exactly once, and no other.
C8_VariantIsPermutationOfBank ==
    \A v \in Candidates :
        /\ Len(v.questions) = Len(questions_data)
        /\ \A b \in 1..Len(Bank) :
               Cardinality({k \in 1..Len(v.questions) :
                               Questions(v)[k].sheet_name = Bank[b].sheet_name}) = 1
        /\ \A k \in 1..Len(v.questions) :
               \E b \in 1..Len(Bank) : Questions(v)[k].sheet_name = Bank[b].sheet_name

\* Generation and selection have run on a bank of two questions, and a kept
\* variant has them in the other order.
C8_Witness ==
    /\ pc = "p1_pdfs"
    /\ Len(questions_data) = 2
    /\ \E i \in 1..Len(variants) :
           /\ Questions(variants[i])[1].sheet_name = Bank[2].sheet_name
           /\ Questions(variants[i])[2].sheet_name = Bank[1].sheet_name

\* C9: in every generated variant every question has exactly one answer
\* with is_correct true, and its answers are those of the bank question of
\* the same sheet, each as many times.
C9_OneCorrectAnswerSameAnswers ==
    \A v \in Candidates :
        \A k \in 1..Len(v.questions) :
            LET q == Questions(v)[k]
            IN  /\ Cardinality({i \in 1..Len(q.answers) : q.answers[i].is_correct}) = 1
                /\ \A b \in 1..Len(Bank) :
                       Bank[b].sheet_name = q.sheet_name =>
                           /\ Len(q.answers) = Len(Bank[b].answers)
                           /\ \A a \in Range(q.answers) \cup Range(Bank[b].answers) :
                                  Count(q.answers, a) = Count(Bank[b].answers, a)

\* A generated question with three answers, two of them equal, whose correct
\* answer the shuffle moved to the last place.
C9_Witness ==
    \E v \in Range(potential_variants) :
        \E k \in 1..Len(v.questions) :
            LET q == Questions(v)[k]
            IN  /\ Len(q.answers) = 3
                /\ q.answers[3].is_correct
                /\ q.answers[1] = q.answers[2]

\* No question dict is reachable from two candidates or from a candidate and
\* the bank.
NoSharedQuestion ==
    /\ \A i, j \in 1..Len(potential_variants) :
           i # j => Range(potential_variants[i].questions)
                        \cap Range(potential_variants[j].questions) = {}
    /\ \A i \in 1..Len(potential_variants) :
           Range(potential_variants[i].questions) \cap Range(questions_data) = {}

\* C10 (a step from p1_generate is the call of generate_test_variants):
\* generate_test_variants leaves questions_data, every bank question
\* (its answer order included) and original_questions_order as they were,
\* and the candidates it returns share no question dict with each other or
\* with the bank.
C10_GenerationLeavesBankAndCopies ==
    [][pc = "p1_generate" =>
          /\ questions_data' = questions_data
          /\ Bank' = Bank
          /\ original_questions_order' = original_questions_order
          /\ NoSharedQuestion']_vars

\* Two candidates were generated from a bank of two questions; both reorder
\* the answers of the first bank question, and they order the questions
\* differently.
C10_Witness ==
    /\ pc = "p1_evaluate"
    /\ Len(questions_data) = 2
    /\ Len(potential_variants) = 2
    /\ Len(Bank[1].answers) = 2
    /\ \A i \in 1..2 :
           \E k \in 1..2 :
               /\ Questions(potential_variants[i])[k].sheet_name = Bank[1].sheet_name
               /\ Questions(potential_variants[i])[k].answers # Bank[1].answers
    /\ Questions(potential_variants[1])[1].sheet_name
           # Questions(potential_variants[2])[1].sheet_name


\* ------------------------------------------------- float64 arithmetic
\* A total that is a whole number is exact in float64, and so are the sums
\* and differences of such totals: the operators above compute with them as
\* integers.  A weight read from a spreadsheet may have a fractional part
\* (float(val), lines 276-302); the operators below compute with such
\* numbers as numpy does, correctly rounded to 53 significant bits.
\* A natural number is a sequence of bits, most significant first, without
\* leading zeros; a positive float64 is [m, e], m of exactly Precision
\* bits, of value m * 2^e.
Precision == 53

RECURSIVE BitsOfNat(_)
BitsOfNat(k) == IF k = 0 THEN <<>> ELSE BitsOfNat(k \div 2) \o <<k % 2>>

Zeros(k) == [i \in 1..k |-> 0]

\* Naturals are added and divided eight bits at a time.
\* The natural number a on w bits, and without its leading zeros.
Widen(a, w) == Zeros(w - Len(a)) \o a

Strip(a) ==
    LET ones == {i \in 1..Len(a) : a[i] = 1}
        first == CHOOSE i \in ones : \A j \in ones : i <= j
    IN  IF ones = {} THEN <<>> ELSE SubSeq(a, first, Len(a))

\* The number of the i-th group of eight bits of a, and the bits of a number
\* below 256.
Chunk(a, i) ==
    a[8 * i - 7] * 128 + a[8 * i - 6] * 64 + a[8 * i - 5] * 32 + a[8 * i - 4] * 16
        + a[8 * i - 3] * 8 + a[8 * i - 2] * 4 + a[8 * i - 1] * 2 + a[8 * i]

ChunkBits(v) == [j \in 1..8 |-> (v \div 2^(8 - j)) % 2]

\* The sum of the last i groups of a and b, which have c groups each.
RECURSIVE AddLow(_, _, _, _)
AddLow(a, b, c, i) ==
    IF i = 0 THEN [bits |-> <<>>, carry |-> 0]
    ELSE LET low == AddLow(a, b, c, i - 1)
             t == Chunk(a, c + 1 - i) + Chunk(b, c + 1 - i) + low.carry
         IN  [bits |-> ChunkBits(t % 256) \o low.bits, carry |-> t \div 256]

AddBits(a, b) ==
    LET c == (Max(Len(a), Len(b)) + 7) \div 8
        sum == AddLow(Widen(a, 8 * c), Widen(b, 8 * c), c, c)
    IN  Strip(<<sum.carry>> \o sum.bits)

\* Long division of the first i groups of a by the small number n.
RECURSIVE DivideFirst(_, _, _)
DivideFirst(a, n, i) ==
    IF i = 0 THEN [quotient |-> <<>>, remainder |-> 0]
    ELSE LET before == DivideFirst(a, n, i - 1)
             t == before.remainder * 256 + Chunk(a, i)
         IN  [quotient |-> before.quotient \o ChunkBits(t \div n), remainder |-> t % n]

Divide(a, n) ==
    LET c == (Len(a) + 7) \div 8
        division == DivideFirst(Widen(a, 8 * c), n, c)
    IN  [quotient |-> Strip(division.quotient), remainder |-> division.remainder]

\* The float64 nearest to bits * 2^e, ties to even; inexact says that the
\* bits were already cut from a larger number.
RoundToFloat(bits, e, inexact) ==
    IF Len(bits) <= Precision
    THEN [m |-> bits \o Zeros(Precision - Len(bits)), e |-> e - (Precision - Len(bits))]
    ELSE LET kept == SubSeq(bits, 1, Precision)
             guard == bits[Precision + 1]
             sticky == inexact \/ \E i \in (Precision + 2)..Len(bits) : bits[i] = 1
             up == guard = 1 /\ (sticky \/ kept[Precision] = 1)
             m == IF up THEN AddBits(kept, <<1>>) ELSE kept
             cut == Len(bits) - Precision
         IN  IF Len(m) > Precision THEN [m |-> SubSeq(m, 1, Precision), e |-> e + cut + 1]
             ELSE [m |-> m, e |-> e + cut]

\* float(k / d) for small positive integers: the float64 of a decimal cell.
FloatOfRatio(k, d) ==
    LET division == Divide(BitsOfNat(k) \o Zeros(64), d)
    IN  RoundToFloat(division.quotient, -64, division.remainder # 0)

FloatAdd(x, y) ==
    LET e == IF x.e < y.e THEN x.e ELSE y.e
    IN  RoundToFloat(AddBits(x.m \o Zeros(x.e - e), y.m \o Zeros(y.e - e)), e, FALSE)

\* x / n for a small positive integer n.
FloatDivide(x, n) ==
    LET division == Divide(x.m \o Zeros(8), n)
    IN  RoundToFloat(division.quotient, x.e - 8, division.remainder # 0)

\* The sum of the first i numbers, added one after the other.
RECURSIVE FloatSumTo(_, _)
FloatSumTo(s, i) == IF i = 1 THEN s[1] ELSE FloatAdd(FloatSumTo(s, i - 1), s[i])

FloatSum(s) == FloatSumTo(s, Len(s))

\* np.mean(scores), line 648.
FloatMean(scores) == FloatDivide(FloatSum(scores), Len(scores))

\* a < b for naturals of the same number of bits.
BitsLess(a, b) ==
    \E i \in 1..Len(a) : a[i] < b[i] /\ \A j \in 1..(i - 1) : a[j] = b[j]

FloatLess(x, y) == x.e < y.e \/ (x.e = y.e /\ BitsLess(x.m, y.m))

\* ------------------------------------- analyze_results, equal fractions
\* analyze_results on results whose totals are one float64 with a
\* fractional part, the same for every student.
\* np.std (line 650) is the root of the mean of the squared differences
\* from np.mean: it is 0 exactly when every score equals the mean.
StdDevIsZero(scores) == \A i \in 1..Len(scores) : scores[i] = FloatMean(scores)

\* Line 697, rounded as line 725 rounds it, in hundredths, for a score of
\* equal scores.  Every score is at the same distance from the mean, the
\* standard deviation is that distance, and the quotient is 1 or -1 to
\* within a few units in the last place.
ZScoreOfEqual(scores, x) ==
    IF StdDevIsZero(scores) THEN 0
    ELSE IF FloatLess(x, FloatMean(scores)) THEN -100 ELSE 100

\* Lines 702-722.  np.percentile of equal scores is the score, which is
\* below none of the boundaries.
StanineOfEqual(scores, x) ==
    LET stanine_boundaries == [k \in 1..8 |-> scores[1]]
        below == {k \in 1..8 : FloatLess(x, stanine_boundaries[k])}
    IN  IF below = {} THEN "S+"
        ELSE StanineLabels[CHOOSE k \in below : \A l \in below : k <= l]

\* Line 699.
PercentileOfFloat(scores, x) ==
    LET left == Cardinality({i \in 1..Len(scores) : FloatLess(scores[i], x)})
        right == Cardinality({i \in 1..Len(scores) : ~FloatLess(x, scores[i])})
    IN  RoundDiv((left + right + (IF left < right THEN 1 ELSE 0)) * 5000, Len(scores))

\* Lines 647-650, 677-679 and 695-729 of analyze_results; the entries of
\* analysis_results that are computed from other fields of the results
\* are left out.  round(std_dev, 2) is 0.0 when std_dev is 0 and when it
\* is a rounding error of the mean.
analyze_results_of_equal(m) ==
    LET keys == m.test_results_keys
        scores == [i \in 1..Len(keys) |-> m.test_results[keys[i]].total_score]
        m1 == [m EXCEPT !.analysis_results = Some(
                   [num_students |-> Len(scores),
                    std_dev_is_zero |-> StdDevIsZero(scores),
                    std_deviation |-> 0])]
        m2 == [m1 EXCEPT !.test_results =
                   [st \in DOMAIN m.test_results |->
                       [z_score |-> ZScoreOfEqual(scores, m.test_results[st].total_score),
                        percentile |-> PercentileOfFloat(scores, m.test_results[st].total_score),
                        stanine |-> StanineOfEqual(scores, m.test_results[st].total_score)]
                           @@ m.test_results[st]]]
    IN  print(m2, "results_analyzed", "", "")

\* The most students, and the largest total in tenths.
MaxStudents == 3
MaxTenths == 40

StudentIds == <<"s1", "s2", "s3", "s4">>

\* n students were graded and every one of them has k tenths in total.
EqualTotals(n, k) ==
    [init(EmptyDict) EXCEPT
        !.test_results = [st \in {StudentIds[i] : i \in 1..n} |->
                             [total_score |-> FloatOfRatio(k, 10)]],
        !.test_results_keys = SubSeq(StudentIds, 1, n)]

InitEqualTotals ==
    /\ pc = "analyze"
    /\ \E m \in {EqualTotals(n, k) : n \in 1..MaxStudents, k \in 1..MaxTenths} :
          /\ heap = m.heap
          /\ stdout = m.stdout
          /\ config = m.config
          /\ questions_data = m.questions_data
          /\ original_questions_order = m.original_questions_order
          /\ variants = m.variants
          /\ variant_answer_keys = m.variant_answer_keys
          /\ variant_question_mappings = m.variant_question_mappings
          /\ student_responses = m.student_responses
          /\ test_results = m.test_results
          /\ test_results_keys = m.test_results_keys
          /\ analysis_results = m.analysis_results
          /\ default_correct_score = m.default_correct_score
          /\ default_wrong_score = m.default_wrong_score
          /\ default_no_answer_score = m.default_no_answer_score
          /\ passing_threshold = m.passing_threshold
          /\ question_analytics = m.question_analytics
    /\ config_json = None
    /\ questions_xlsx = None
    /\ student_answers_xlsx = None
    /\ question_mappings_json = None
    /\ answer_keys_report_txt = None
    /\ potential_variants = <<>>
    /\ randomness_metrics = None
    /\ grading_runs = 1
    /\ phase1_exit = None
    /\ frame = None

AnalyzeEqualTotals ==
    /\ pc = "analyze"
    /\ Becomes(analyze_results_of_equal(Self))
    /\ pc' = "analyzed"
    /\ UNCHANGED <<files, potential_variants, randomness_metrics, grading_runs, phase1_exit, frame>>

NextEqualTotals == AnalyzeEqualTotals

SpecEqualTotals == InitEqualTotals /\ [][NextEqualTotals]_vars

\* --------------------------------------- analyze_questions, one class
\* analyze_questions on the results of a class of up to MaxClass students
\* who sat the same two questions, question 1 from sheet S1 and question 2
\* from sheet S2, graded with the default weights.
MaxClass == 8

\* What correct_tests stores for one answer (lines 588-605).
Answered(sheet, response, correct) ==
    [sheet |-> sheet, response |-> response, correct |-> correct]

\* The first right and the second wrong; the first wrong and the second
\* right, which gives the same total; both blank.
Sittings ==
    {[answers |-> [q \in {"1", "2"} |->
                      IF q = "1" THEN Answered("S1", r[1], "A") ELSE Answered("S2", r[2], "B")]] :
        r \in {<<"a", "A">>, <<"B", "b">>, <<"blank", "blank">>}}

OutcomeOf(answer) ==
    IF answer.response = "blank" THEN "blank"
    ELSE IF Upper(answer.response) = Upper(answer.correct) THEN "correct" ELSE "wrong"

\* Lines 590-608 with the weights of lines 43-45.
TotalOf(sitting) ==
    SumSeq([i \in 1..2 |->
               LET outcome == OutcomeOf(sitting.answers[<<"1", "2">>[i]])
               IN  IF outcome = "correct" THEN 4 ELSE IF outcome = "wrong" THEN 0 ELSE 1])

ClassId(i) == "s" \o ToString(i)

\* The instance after correct_tests graded the class: the results in the
\* order of the rows, and the tallies of lines 591-604.
ClassGraded(class) ==
    [init(EmptyDict) EXCEPT
        !.test_results =
            [st \in {ClassId(i) : i \in 1..Len(class)} |->
                LET i == CHOOSE j \in 1..Len(class) : ClassId(j) = st
                IN  [total_score |-> TotalOf(class[i]), answers |-> class[i].answers]],
        !.test_results_keys = [i \in 1..Len(class) |-> ClassId(i)],
        !.question_analytics =
            [sheet \in {"S1", "S2"} |->
                [o \in {"correct", "wrong", "blank"} |->
                    Cardinality({i \in 1..Len(class) :
                        \E q \in {"1", "2"} :
                            /\ class[i].answers[q].sheet = sheet
                            /\ OutcomeOf(class[i].answers[q]) = o})]]]

InitClass ==
    /\ pc = "class_graded"
    /\ \E m \in {ClassGraded(class) : class \in SeqsUpTo(Sittings, MaxClass) \ {<<>>}} :
          /\ test_results = m.test_results
          /\ test_results_keys = m.test_results_keys
          /\ question_analytics = m.question_analytics
    /\ heap = Blank.heap
    /\ stdout = Blank.stdout
    /\ config = EmptyDict
    /\ questions_data = <<>>
    /\ original_questions_order = <<>>
    /\ variants = <<>>
    /\ variant_answer_keys = EmptyDict
    /\ variant_question_mappings = EmptyDict
    /\ student_responses = None
    /\ analysis_results = None
    /\ default_correct_score = 4
    /\ default_wrong_score = 0
    /\ default_no_answer_score = 1
    /\ passing_threshold = 58
    /\ config_json = None
    /\ questions_xlsx = None
    /\ student_answers_xlsx = None
    /\ question_mappings_json = None
    /\ answer_keys_report_txt = None
    /\ potential_variants = <<>>
    /\ randomness_metrics = None
    /\ grading_runs = 1
    /\ phase1_exit = None
    /\ frame = None

AnalyzeClass ==
    /\ pc = "class_graded"
    /\ Becomes(analyze_questions(Self))
    /\ pc' = "class_analyzed"
    /\ UNCHANGED <<files, potential_variants, randomness_metrics, grading_runs, phase1_exit, frame>>

NextClass == AnalyzeClass

SpecClass == InitClass /\ [][NextClass]_vars

\* ------------------------------------------------------ analysis claims
\* C18: analyze_results and analyze_questions run a second time on the
\* same graded results leave analysis_results, every student's result
\* (z_score, percentile and stanine included) and every question's
\* statistics and correct/wrong/blank tallies as the first run left them.
C18_SecondAnalysisChangesNothing ==
    [][pc = "p2_reports" =>
          /\ analysis_results' = analysis_results
          /\ test_results' = test_results
          /\ question_analytics' = question_analytics]_vars

\* Two students of different totals and a question that tells them apart
\* have been analysed twice.
C18_Witness ==
    /\ pc = "p2_reanalyzed"
    /\ analysis_results # None
    /\ Cardinality(DOMAIN test_results) >= 2
    /\ \E st \in DOMAIN test_results : test_results[st].z_score.numerator # 0
    /\ \E sheet_name \in DOMAIN question_analytics :
           /\ "discrimination" \in DOMAIN question_analytics[sheet_name]
           /\ question_analytics[sheet_name].discrimination # 0
           /\ question_analytics[sheet_name].total_answers >= 2

\* C19: when every graded student has the same total, analyze_results
\* reports standard deviation 0, gives every student z-score 0 and one of
\* the nine stanine labels.
C19_EqualTotalsHaveZeroZScores ==
    (pc = "analyzed") =>
        /\ analysis_results[1].std_deviation = 0
        /\ \A st \in DOMAIN test_results :
               /\ test_results[st].z_score = 0
               /\ test_results[st].stanine \in
                      {StanineLabels[k] : k \in 1..8} \cup {"S+"}

\* The place of a student in the ranking by total score, highest first,
\* students of equal totals in the order they were graded.
Place(st) ==
    LET at(x) == CHOOSE i \in 1..Len(test_results_keys) : test_results_keys[i] = x
    IN  1 + Cardinality({x \in DOMAIN test_results :
                \/ test_results[x].total_score > test_results[st].total_score
                \/ /\ test_results[x].total_score = test_results[st].total_score
                   /\ at(x) < at(st)})

\* The largest whole number up to 27% of n, and 1 when that is 0.
GroupOf(n) ==
    CHOOSE g \in 1..n : 100 * (g + 1) > 27 * n /\ (g = 1 \/ 100 * g <= 27 * n)

TopGroup == {st \in DOMAIN test_results : Place(st) <= GroupOf(Cardinality(DOMAIN test_results))}

BottomGroup ==
    {st \in DOMAIN test_results :
        Place(st) > Cardinality(DOMAIN test_results) - GroupOf(Cardinality(DOMAIN test_results))}

RightIn(group, sheet_name) ==
    Cardinality({st \in group : AnsweredCorrectly(test_results[st], sheet_name)})

Tallied(sheet_name) ==
    question_analytics[sheet_name].correct + question_analytics[sheet_name].wrong
        + question_analytics[sheet_name].blank

\* C20 as stated: for every question with a tallied answer, difficulty is
\* 1 - correct/total and discrimination is the correct-rate of the top
\* group minus that of the bottom group, the groups being the first and
\* the last max(1, floor(0.27 n)) students of the ranking by total score;
\* the groups are not empty and discrimination is between -1 and 1.
C20_DifficultyAndDiscrimination ==
    (pc = "class_analyzed") =>
        \A sheet_name \in DOMAIN question_analytics :
            Tallied(sheet_name) > 0 =>
                /\ question_analytics[sheet_name].difficulty * Tallied(sheet_name)
                       = 100 * (Tallied(sheet_name) - question_analytics[sheet_name].correct)
                /\ question_analytics[sheet_name].discrimination * Cardinality(TopGroup)
                       = 100 * (RightIn(TopGroup, sheet_name) - RightIn(BottomGroup, sheet_name))
                /\ Cardinality(TopGroup) >= 1
                /\ Cardinality(BottomGroup) = Cardinality(TopGroup)
                /\ question_analytics[sheet_name].discrimination \in -100..100

\* C20, amended: the same, difficulty and discrimination being stored
\* rounded to two decimals.
C20_RoundedDifficultyAndDiscrimination ==
    (pc = "class_analyzed") =>
        \A sheet_name \in DOMAIN question_analytics :
            Tallied(sheet_name) > 0 =>
                /\ question_analytics[sheet_name].difficulty
                       = RoundDiv(100 * (Tallied(sheet_name) - question_analytics[sheet_name].correct),
                                  Tallied(sheet_name))
                /\ question_analytics[sheet_name].discrimination
                       = RoundDiv(100 * (RightIn(TopGroup, sheet_name) - RightIn(BottomGroup, sheet_name)),
                                  Cardinality(TopGroup))
                /\ Cardinality(TopGroup) >= 1
                /\ Cardinality(BottomGroup) = Cardinality(TopGroup)
                /\ question_analytics[sheet_name].discrimination \in -100..100

\* Eight students in groups of two, a question that a third of a group of
\* answers got right, and a question that tells the groups apart.
C20_Witness ==
    /\ pc = "class_analyzed"
    /\ Cardinality(TopGroup) = 2
    /\ TopGroup \cap BottomGroup = {}
    /\ \E sheet_name \in DOMAIN question_analytics :
           question_analytics[sheet_name].discrimination \in {-50, 50}
    /\ \E sheet_name \in DOMAIN question_analytics :
           question_analytics[sheet_name].difficulty * Tallied(sheet_name)
               # 100 * (Tallied(sheet_name) - question_analytics[sheet_name].correct)

\* ---------------------------------------------------- the phases' claims
ConfigUsable == IF config_json = None THEN FALSE ELSE config_json[1].valid

\* The phase stopped with a message, having loaded, generated, graded and
\* written nothing.
Aborted(failed, message) ==
    /\ pc' = failed
    /\ <<message, "", "">> \in stdout'
    /\ questions_data' = <<>>
    /\ variants' = <<>>
    /\ potential_variants' = <<>>
    /\ test_results' = EmptyDict
    /\ analysis_results' = None
    /\ files' = files

\* C21: a phase that starts without a usable config.json or without one of
\* its required files (phase 1: questions.xlsx; phase 2: student_answers.xlsx
\* and question_mappings.json) prints an error message and stops with no
\* question loaded, no variant generated, no student graded and no file
\* written; nothing follows in the stopped phase.
C21_ConfigurationErrorsAreFatal ==
    [][/\ (pc = "start" /\ (~ConfigUsable \/ questions_xlsx = None))
              => Aborted("p1_failed", "phase1_error")
       /\ (pc \in {"p1_done", "p1_failed"} /\ pc' # pc
              /\ (~ConfigUsable \/ student_answers_xlsx = None \/ question_mappings_json = None))
              => Aborted("p2_failed", "phase2_error")
       /\ pc = "p1_failed" => pc' \in {"p1_failed", "p2_load", "p2_failed"}
       /\ pc # "p2_failed"]_vars

\* Phase 2 stopped for a missing student_answers.xlsx although phase 1 had
\* written the registry.
C21_Witness ==
    /\ pc = "p2_failed"
    /\ ConfigUsable
    /\ question_mappings_json # None
    /\ student_answers_xlsx = None
    /\ <<"phase2_error", "", "">> \in stdout
    /\ test_results = EmptyDict

\* ------------------------------------------------------------ the claims about the helpers
\* C22: every test that went past its fixture has seen the base constructor
\* called exactly once, with the command and with the arguments, the
\* options and the extra arguments of the call (None where omitted).
C22_BaseConstructorCalledOnce ==
    pc \notin {"fixture", "imported"} =>
        frame.base_calls = <<[command |-> frame.call.command,
                              arguments |-> frame.call.arguments,
                              options |-> frame.call.options,
                              extra_arguments |-> frame.call.extra_arguments]>>

\* C23: the compiler is never invoked a third time; a call in which the
\* .tex file was written and no invocation raised has invoked it exactly
\* twice, whatever the first invocation did, and returned True exactly
\* when the PDF exists; every call that returned, by any path, ran the
\* cleanup once, after the last invocation.
C23_CompilerInvokedTwice ==
    /\ Len(frame.outcomes) <= 2
    /\ frame.cleanups = (IF pc = "compile_returned" THEN 1 ELSE 0)
    /\ pc = "compile_returned" =>
         /\ frame.returned # None
         /\ (frame.tex_generated /\ ~frame.raised) =>
              /\ Len(frame.outcomes) = 2
              /\ frame.returned = Some(frame.pdf_exists)
         /\ frame.raised => frame.returned = Some(FALSE)

C23_Witness ==
    /\ pc = "compile_returned"
    /\ frame.outcomes = <<"pdf_written", "compiler_error">>
    /\ frame.returned = Some(TRUE)
    /\ frame.cleanups = 1

\* ------------------------------------------------------------ the selection's claims
\* Values the randomness_metrics argument can take.
MetricsValues ==
    [zero : BOOLEAN, question_order_randomness : {<<0, 1>>, <<1, 2>>, <<1, 1>>}]

\* C24: the variants selected are, in the same order, those
\* select_best_variants returns for every other value of
\* randomness_metrics.
C24_SelectionIgnoresMetrics ==
    pc = "p1_pdfs" =>
        \A metrics \in MetricsValues :
            LET r == select_best_variants(Self, potential_variants, metrics,
                                          ConfigGet(config, "num_variants", 1))
            IN  ~r.raised /\ r.result = variants

C24_Witness ==
    /\ pc = "p1_pdfs"
    /\ Len(potential_variants) > 1
    /\ Len(variants) = 1
    /\ randomness_metrics # None
    /\ ~randomness_metrics[1].zero
    /\ \E i \in 1..Len(potential_variants) : potential_variants[i] # variants[1]

\* The positions of a variant whose occupant comes from another sheet than
\* the question the bank has at that position.
ChangedPositions(variant) ==
    {k \in 1..Len(variant.questions) :
        heap[variant.questions[k]].sheet_name # Bank[k].sheet_name}

\* C25: the question-order score select_best_variants gave every candidate
\* is the number of positions whose occupant, identified by its sheet,
\* differs from the bank's order, divided by the number of questions.
C25_QuestionOrderScoreCountsChangedPositions ==
    pc = "p1_pdfs" =>
        \A i \in 1..Len(potential_variants) :
            REq(QuestionOrderScore(Self, potential_variants[i]),
                <<Cardinality(ChangedPositions(potential_variants[i])), Len(questions_data)>>)

\* C26: whatever load_questions_from_excel left behind, the selection
\* applied to the generated candidates returns a selection: main goes on
\* to the PDFs and no ZeroDivisionError ends the phase.
C26_SelectionReturns ==
    [][pc = "p1_select" => pc' = "p1_pdfs"]_vars

\* ------------------------------------------------------------ the diagnostics' claims
\* The row of the workbook a question of the bank was built from has a cell
\* that float() or int() rejects in a score column or in the column count.
RejectedCell(q) ==
    \E i \in 1..Len(questions_xlsx[1]) :
        /\ questions_xlsx[1][i].sheet_name = q.sheet_name
        /\ questions_xlsx[1][i].has_columns
        /\ \E r \in Range(ValidRows(questions_xlsx[1][i])) :
              /\ r.question_text = q.question_text
              /\ "text" \in {r.punteggio_corretta.k, r.punteggio_errata.k,
                             r.punteggio_non_data.k, r.num_cols.k}

\* C27: after load_questions_from_excel, a load that raised has printed its
\* error, and every question built from a row with a rejected score or
\* column-count cell has a printed line that names its sheet.
C27_SwallowedErrorsArePrinted ==
    (pc \in {"p1_generate", "p2_answers"} /\ questions_xlsx # None) =>
        /\ original_questions_order = <<>> /\ questions_data # <<>>
              => <<"load_questions_error", "", "">> \in stdout
        /\ \A b \in 1..Len(Bank) :
              RejectedCell(Bank[b]) =>
                  \E d \in stdout : d[1] # "questions_loaded" /\ d[2] = Bank[b].sheet_name

\* ------------------------------------------------------------ the tallies' claims
\* The graded results whose answer detail has the question of a sheet with
\* the given outcome.
ResultsWith(sheet_name, outcomes) ==
    {st \in DOMAIN test_results :
        \E col \in DOMAIN test_results[st].answers :
            /\ test_results[st].answers[col].sheet = sheet_name
            /\ OutcomeKey(test_results[st].answers[col]) \in outcomes}

AllOutcomes == {"punteggio_corretta", "punteggio_errata", "punteggio_non_data"}

\* C28: after correct_tests, the three tallies of every question count the
\* graded results that hold the question with that outcome, so their sum
\* is the number of graded results that hold the question; a question held
\* by a graded result is tallied.
C28_TalliesCountGradedResults ==
    pc = "p2_analyze" =>
        /\ \A sheet_name \in DOMAIN question_analytics :
              /\ question_analytics[sheet_name].correct
                     = Cardinality(ResultsWith(sheet_name, {"punteggio_corretta"}))
              /\ question_analytics[sheet_name].wrong
                     = Cardinality(ResultsWith(sheet_name, {"punteggio_errata"}))
              /\ question_analytics[sheet_name].blank
                     = Cardinality(ResultsWith(sheet_name, {"punteggio_non_data"}))
              /\ Tallied(sheet_name) = Cardinality(ResultsWith(sheet_name, AllOutcomes))
        /\ \A st \in DOMAIN test_results :
              \A col \in DOMAIN test_results[st].answers :
                  test_results[st].answers[col].sheet \in DOMAIN question_analytics

\* ------------------------------------------------------------ the submissions' claims
\* C29: when student_answers.xlsx lacks the column student_id or the column
\* variant_id, the load has printed its error and left student_responses
\* unset, and after correct_tests no one is graded: test_results is empty.
C29_MissingColumnLoadsNothing ==
    (/\ pc = "p2_analyze"
     /\ ~(student_answers_xlsx[1].has_student_id /\ student_answers_xlsx[1].has_variant_id)) =>
        /\ <<"load_answers_error", "", "">> \in stdout
        /\ student_responses = None
        /\ test_results = EmptyDict

\* ------------------------------------------------------------ the variant ids' claims
KeptIds == {variants[j].variant_id : j \in 1..Len(variants)}

\* C30: the i-th candidate has the id str(i); every kept variant is one of
\* the candidates, under the id it had, and the ids of the kept variants
\* are pairwise distinct; once generate_answer_keys_report has run, the ids
\* in each of the two registries are exactly the ids of the kept variants.
C30_RegistryIdsAreKeptIds ==
    /\ \A i \in 1..Len(potential_variants) : potential_variants[i].variant_id = ToString(i)
    /\ \A j \in 1..Len(variants) :
          \E i \in 1..Len(potential_variants) : variants[j] = potential_variants[i]
    /\ \A j, k \in 1..Len(variants) :
          j # k => variants[j].variant_id # variants[k].variant_id
    /\ pc \in {"p1_template", "p1_done"} =>
          /\ DOMAIN variant_answer_keys = KeptIds
          /\ DOMAIN variant_question_mappings = KeptIds

C30_Witness ==
    /\ pc = "p1_done"
    /\ Len(potential_variants) = 2
    /\ KeptIds = {"2"}
    /\ DOMAIN variant_answer_keys = {"2"}

=============================================================================
